---------------------------- MODULE Spec2Model ----------------------------
(***************************************************************************)
(* BTC trading bot: the Signal Engine (bot-core-brain) and the Verifier    *)
(* (bot-heartbeat) cooperating through one relational store.               *)
(*                                                                         *)
(* Units.  Money is in cents (+$15 = 1500).  Scores, confidences and the   *)
(* regime ratios are in hundredths (0.65 = 65).  Prices are integers in a  *)
(* unit fine enough that 0.25% of every entry price used is a whole        *)
(* number.  The clock `now` counts steps of StepMinutes; the calendar date *)
(* is derived from it (DateOf).                                            *)
(***************************************************************************)
EXTENDS Integers, Sequences, FiniteSets, TLC

(***************************** bounds **************************************)
MaxNow == 2
MaxSignals == 4
MaxEngineSignals == 1
MaxHistory == 2
MaxKlineTs == 4
CandlesMaxLen == 4
MaxSamples == 3

(***************** clock granularity (not program data) ********************)
StepMinutes == 12 * 60
StepsPerDay == (24 * 60) \div StepMinutes
DateOf(t) == (t \div StepsPerDay) + 1
\* the UTC hours that fall in clock step t
HoursOf(t) ==
    { h \in 0 .. 23 : (h * 60) \div StepMinutes = t % StepsPerDay }
Dates == 1 .. DateOf(MaxNow)
NoDate == 0
NoTime == 0 - 1

(************************* program constants *******************************)
TpBps == 50
SlBps == 25
BpsDen == 100 * 100
Notional == 3000
WinAmount == 1500
LossAmount == 0 - 750
MaxHoldMinutes == 240
DailyTarget == 1000
DailyStop == 0 - 1500
MaxTrades == 3
MaxConsecLosses == 2
CooldownMinutes == 60
ContextMinScore == 50
RegimeConfidenceMin == 65
ExhaustionRiskMax == 50
StructureQualityMin == 60
SetupQualityMin == 70
MtfConfluenceMin == 2
AiConfidenceMin == 65
MaxRiskFactors == 1
ConfidenceThreshold == 65
SkipScore == 65
HbTarget == 1000
HbStop == 0 - 1500
HbMaxTrades == 3

(************************* gate pipeline ***********************************)
GateResult(name, st, sc) == [gate_name |-> name, status |-> st, score |-> sc]

NoFunding == 0 - 1
NoAI == [confidence |-> 0, direction |-> "ABSENT", risk_factors |-> 0]
NoProposal == [direction |-> "NONE", setup_quality |-> 0]

\* session table on the hour of utcnow(); -1 stands for the 21:00-24:00
\* Dead Zone
SessionScore(hour) ==
    IF 13 <= hour /\ hour < 16 THEN 100
    ELSE IF 16 <= hour /\ hour < 21 THEN 90
    ELSE IF 8 <= hour /\ hour < 13 THEN 80
    ELSE IF 0 <= hour /\ hour < 8 THEN 50
    ELSE 0 - 1

_check_gate1_context(hour, funding) ==
    LET session_score == SessionScore(hour)
        score == IF funding # NoFunding /\ funding <= 20
                 THEN (session_score * 5) \div 10
                 ELSE session_score
    IN  IF session_score < 0
        THEN GateResult("Gate 1: Context", "FAILED", 0)
        ELSE IF score >= ContextMinScore
             THEN GateResult("Gate 1: Context", "PASSED", score)
             ELSE GateResult("Gate 1: Context", "FAILED", score)

\* gate 2 without the exhaustion check
Gate2IgnoringExhaustion(regime) ==
    IF regime.regime_type = "CHOPPY"
    THEN GateResult("Gate 2: Regime", "FAILED", 0)
    ELSE IF regime.structure_quality < StructureQualityMin
    THEN GateResult("Gate 2: Regime", "FAILED", regime.confidence)
    ELSE IF regime.confidence < RegimeConfidenceMin
    THEN GateResult("Gate 2: Regime", "FAILED", regime.confidence)
    ELSE GateResult("Gate 2: Regime", "PASSED", regime.confidence)

_check_gate2_regime(regime) ==
    IF regime.regime_type = "CHOPPY"
    THEN GateResult("Gate 2: Regime", "FAILED", 0)
    ELSE IF regime.exhaustion_risk >= ExhaustionRiskMax
    THEN GateResult("Gate 2: Regime", "FAILED", regime.confidence)
    ELSE IF regime.structure_quality < StructureQualityMin
    THEN GateResult("Gate 2: Regime", "FAILED", regime.confidence)
    ELSE IF regime.confidence < RegimeConfidenceMin
    THEN GateResult("Gate 2: Regime", "FAILED", regime.confidence)
    ELSE GateResult("Gate 2: Regime", "PASSED", regime.confidence)

_check_gate3_signal_quality(mtf_alignment, rsi_14, signal) ==
    IF signal.setup_quality < SetupQualityMin
    THEN GateResult("Gate 3: Signal Quality", "FAILED", signal.setup_quality)
    ELSE IF mtf_alignment < MtfConfluenceMin
    THEN GateResult("Gate 3: Signal Quality", "FAILED", signal.setup_quality)
    ELSE IF signal.direction = "LONG" /\ rsi_14 > 80
    THEN GateResult("Gate 3: Signal Quality", "FAILED", 0)
    ELSE IF signal.direction = "SHORT" /\ rsi_14 < 20
    THEN GateResult("Gate 3: Signal Quality", "FAILED", 0)
    ELSE GateResult("Gate 3: Signal Quality", "PASSED", signal.setup_quality)

\* gate 4 without the risk-factor check
G4NoRiskCheck(ai_result) ==
    IF ai_result = NoAI
    THEN GateResult("Gate 4: AI Confirmation", "SKIPPED", SkipScore)
    ELSE IF ai_result.confidence < AiConfidenceMin
    THEN GateResult("Gate 4: AI Confirmation", "FAILED", ai_result.confidence)
    ELSE GateResult("Gate 4: AI Confirmation", "PASSED", ai_result.confidence)

_check_gate4_ai(ai_result) ==
    IF ai_result = NoAI
    THEN GateResult("Gate 4: AI Confirmation", "SKIPPED", SkipScore)
    ELSE IF ai_result.confidence < AiConfidenceMin
    THEN GateResult("Gate 4: AI Confirmation", "FAILED", ai_result.confidence)
    ELSE IF ai_result.risk_factors > MaxRiskFactors
    THEN GateResult("Gate 4: AI Confirmation", "FAILED", ai_result.confidence)
    ELSE GateResult("Gate 4: AI Confirmation", "PASSED", ai_result.confidence)

\* daily_state is the gate system's DailyState dataclass; t is utcnow()
_check_gate5_daily_limits(daily_state, t) ==
    IF daily_state.pnl >= DailyTarget
    THEN GateResult("Gate 5: Daily Limits", "FAILED", 0)
    ELSE IF daily_state.pnl <= DailyStop
    THEN GateResult("Gate 5: Daily Limits", "FAILED", 0)
    ELSE IF daily_state.trade_count >= MaxTrades
    THEN GateResult("Gate 5: Daily Limits", "FAILED", 0)
    ELSE IF daily_state.status # "ACTIVE"
    THEN GateResult("Gate 5: Daily Limits", "FAILED", 0)
    ELSE IF /\ daily_state.consecutive_losses >= MaxConsecLosses
            /\ daily_state.last_trade_time # NoTime
            /\ (t - daily_state.last_trade_time) * StepMinutes < CooldownMinutes
    THEN GateResult("Gate 5: Daily Limits", "FAILED", 0)
    ELSE IF daily_state.has_position
    THEN GateResult("Gate 5: Daily Limits", "FAILED", 0)
    ELSE GateResult("Gate 5: Daily Limits", "PASSED", 100)

\* the mean of n gate scores, in units of 1/6000 (n divides 60)
ScoreMean(sum, n) == sum * (60 \div n)

GateSystemResult(p, results, overall, blocking) ==
    [passed |-> p, gate_results |-> results, overall_score |-> overall,
     blocking_gate |-> blocking]

NoGate == GateSystemResult(FALSE, <<>>, 0, "NOT_EVALUATED")

\* evaluate without the early return after gate 3
EvaluateNoShortCircuit(inp, signal, daily_state, ai_result, t) ==
    LET gate1 == _check_gate1_context(inp.hour, inp.funding)
        gate2 == _check_gate2_regime(inp.regime)
        gate3 == _check_gate3_signal_quality(inp.mtf_alignment, inp.rsi_14, signal)
        gate4 == _check_gate4_ai(ai_result)
        gate5 == _check_gate5_daily_limits(daily_state, t)
    IN  IF gate1.status = "FAILED"
        THEN GateSystemResult(FALSE, <<gate1>>, ScoreMean(gate1.score, 1),
                              "Gate 1: Context")
        ELSE IF gate2.status = "FAILED"
        THEN GateSystemResult(FALSE, <<gate1, gate2>>,
                              ScoreMean(gate1.score + gate2.score, 2),
                              "Gate 2: Regime")
        ELSE IF gate4.status = "FAILED"
        THEN GateSystemResult(FALSE, <<gate1, gate2, gate3, gate4>>,
                              ScoreMean(gate1.score + gate2.score + gate3.score
                                        + gate4.score, 4),
                              "Gate 4: AI Confirmation")
        ELSE IF gate5.status = "FAILED"
        THEN GateSystemResult(FALSE, <<gate1, gate2, gate3, gate4, gate5>>, 0,
                              "Gate 5: Daily Limits")
        ELSE GateSystemResult(TRUE, <<gate1, gate2, gate3, gate4, gate5>>,
                              ScoreMean(gate1.score + gate2.score + gate3.score
                                        + gate4.score + gate5.score, 5), "")

evaluate(inp, signal, daily_state, ai_result, t) ==
    LET gate1 == _check_gate1_context(inp.hour, inp.funding)
        gate2 == _check_gate2_regime(inp.regime)
        gate3 == _check_gate3_signal_quality(inp.mtf_alignment, inp.rsi_14, signal)
        gate4 == _check_gate4_ai(ai_result)
        gate5 == _check_gate5_daily_limits(daily_state, t)
    IN  IF gate1.status = "FAILED"
        THEN GateSystemResult(FALSE, <<gate1>>, ScoreMean(gate1.score, 1),
                              "Gate 1: Context")
        ELSE IF gate2.status = "FAILED"
        THEN GateSystemResult(FALSE, <<gate1, gate2>>,
                              ScoreMean(gate1.score + gate2.score, 2),
                              "Gate 2: Regime")
        ELSE IF gate3.status = "FAILED"
        THEN GateSystemResult(FALSE, <<gate1, gate2, gate3>>,
                              ScoreMean(gate1.score + gate2.score + gate3.score, 3),
                              "Gate 3: Signal Quality")
        ELSE IF gate4.status = "FAILED"
        THEN GateSystemResult(FALSE, <<gate1, gate2, gate3, gate4>>,
                              ScoreMean(gate1.score + gate2.score + gate3.score
                                        + gate4.score, 4),
                              "Gate 4: AI Confirmation")
        ELSE IF gate5.status = "FAILED"
        THEN GateSystemResult(FALSE, <<gate1, gate2, gate3, gate4, gate5>>, 0,
                              "Gate 5: Daily Limits")
        ELSE GateSystemResult(TRUE, <<gate1, gate2, gate3, gate4, gate5>>,
                              ScoreMean(gate1.score + gate2.score + gate3.score
                                        + gate4.score + gate5.score, 5), "")

(************************* signal proposal *********************************)
\* _calculate_prices with the LONG stop and target distances swapped
CalculatePricesSwapped(entry, direction) ==
    IF direction = "LONG"
    THEN [stop_loss |-> (entry * (BpsDen - TpBps)) \div BpsDen,
          take_profit |-> (entry * (BpsDen + SlBps)) \div BpsDen]
    ELSE [stop_loss |-> (entry * (BpsDen + SlBps)) \div BpsDen,
          take_profit |-> (entry * (BpsDen - TpBps)) \div BpsDen]

_calculate_prices(entry, direction) ==
    IF direction = "LONG"
    THEN [stop_loss |-> (entry * (BpsDen - SlBps)) \div BpsDen,
          take_profit |-> (entry * (BpsDen + TpBps)) \div BpsDen]
    ELSE [stop_loss |-> (entry * (BpsDen + SlBps)) \div BpsDen,
          take_profit |-> (entry * (BpsDen - TpBps)) \div BpsDen]

None == 0 - 1000000

\* the Signal row written by _save_signal for the proposal of this tick
Signal(id, t, inp) ==
    LET px == _calculate_prices(inp.last_price, inp.proposal.direction)
    IN  [signal_id |-> id, created_at |-> t,
         direction |-> inp.proposal.direction,
         regime |-> inp.regime.regime_type,
         entry_price |-> inp.last_price,
         stop_loss |-> px.stop_loss, take_profit |-> px.take_profit,
         status |-> "PENDING", result_price |-> None, result_pnl |-> None,
         result_time |-> NoTime, result_reason |-> "",
         result_analyzed |-> FALSE]

(************************* the store: daily_state **************************)
NoRow ==
    [date |-> NoDate, pnl |-> 0, trade_count |-> 0, wins |-> 0, losses |-> 0,
     consecutive_losses |-> 0, has_position |-> FALSE, status |-> "NO_ROW",
     target_hit_at |-> NoTime, stop_hit_at |-> NoTime]

\* models.DailyState(date=d) with the column defaults
DailyStateRow(d) ==
    [date |-> d, pnl |-> 0, trade_count |-> 0, wins |-> 0, losses |-> 0,
     consecutive_losses |-> 0, has_position |-> FALSE, status |-> "ACTIVE",
     target_hit_at |-> NoTime, stop_hit_at |-> NoTime]

\* a reset that leaves the open-position flag and the trade count of the row
ResetKeepingBudget(dl, target_date) ==
    IF dl[target_date].date = NoDate
    THEN [dl EXCEPT ![target_date] = DailyStateRow(target_date)]
    ELSE [dl EXCEPT ![target_date].pnl = 0,
                    ![target_date].wins = 0,
                    ![target_date].losses = 0,
                    ![target_date].consecutive_losses = 0,
                    ![target_date].status = "ACTIVE",
                    ![target_date].target_hit_at = NoTime,
                    ![target_date].stop_hit_at = NoTime]

\* Bot 1 repository
reset_daily_state(dl, target_date) ==
    IF dl[target_date].date = NoDate
    THEN [dl EXCEPT ![target_date] = DailyStateRow(target_date)]
    ELSE [dl EXCEPT ![target_date].pnl = 0,
                    ![target_date].trade_count = 0,
                    ![target_date].wins = 0,
                    ![target_date].losses = 0,
                    ![target_date].consecutive_losses = 0,
                    ![target_date].has_position = FALSE,
                    ![target_date].status = "ACTIVE",
                    ![target_date].target_hit_at = NoTime,
                    ![target_date].stop_hit_at = NoTime]

get_daily_state(dl, target_date) ==
    IF dl[target_date].date = NoDate
    THEN [dl EXCEPT ![target_date] = DailyStateRow(target_date)]
    ELSE dl

increment_trade_count(dl, target_date) ==
    IF dl[target_date].date # NoDate
    THEN [dl EXCEPT ![target_date].trade_count = @ + 1,
                    ![target_date].has_position = TRUE]
    ELSE dl

\* Bot 2 repository
hb_reset_daily_state(dl, target_date) ==
    IF dl[target_date].date = NoDate
    THEN [dl EXCEPT ![target_date] = DailyStateRow(target_date)]
    ELSE [dl EXCEPT ![target_date].pnl = 0,
                    ![target_date].trade_count = 0,
                    ![target_date].wins = 0,
                    ![target_date].losses = 0,
                    ![target_date].consecutive_losses = 0,
                    ![target_date].has_position = FALSE,
                    ![target_date].status = "ACTIVE",
                    ![target_date].target_hit_at = NoTime,
                    ![target_date].stop_hit_at = NoTime]

hb_get_daily_state(dl, target_date) ==
    IF dl[target_date].date = NoDate
    THEN [dl EXCEPT ![target_date] = DailyStateRow(target_date)]
    ELSE dl

update_daily_state(dl, target_date, pnl_change, is_win, t) ==
    IF dl[target_date].date = NoDate
    THEN dl
    ELSE LET state == dl[target_date]
             pnl == state.pnl + pnl_change
             counted ==
                 [state EXCEPT !.pnl = pnl,
                               !.wins = IF is_win THEN @ + 1 ELSE @,
                               !.losses = IF is_win THEN @ ELSE @ + 1,
                               !.consecutive_losses = IF is_win THEN 0 ELSE @ + 1,
                               !.has_position = FALSE]
             limited ==
                 IF pnl >= HbTarget
                 THEN [counted EXCEPT !.status = "TARGET_HIT", !.target_hit_at = t]
                 ELSE IF pnl <= HbStop
                 THEN [counted EXCEPT !.status = "STOP_HIT", !.stop_hit_at = t]
                 ELSE IF state.trade_count >= HbMaxTrades
                 THEN [counted EXCEPT !.status = "MAX_TRADES"]
                 ELSE counted
         IN  [dl EXCEPT ![target_date] = limited]

\* DailyStateManager.update_with_result: falls back to get_current_state
update_with_result(dl, target_date, result, t) ==
    LET after == update_daily_state(dl, target_date, result.result_pnl,
                                    result.status = "WIN", t)
    IN  IF dl[target_date].date = NoDate
        THEN hb_get_daily_state(after, target_date)
        ELSE after

(************************* the store: signals ******************************)
\* get_pending_signals without the status filter
GetAllSignals(sigs) == sigs

\* Bot 2 repository: the PENDING rows, ordered by created_at
get_pending_signals(sigs) == SelectSeq(sigs, LAMBDA s : s.status = "PENDING")

update_signal_result(sigs, r, t) ==
    [i \in DOMAIN sigs |->
        IF sigs[i].signal_id = r.signal_id
        THEN [sigs[i] EXCEPT !.status = r.status,
                             !.result_price = r.result_price,
                             !.result_time = t,
                             !.result_pnl = r.result_pnl,
                             !.result_reason = r.result_reason]
        ELSE sigs[i]]

\* Bot 1 repository: ids of the resolved rows the learning step has not seen
get_new_results(sigs) ==
    { sigs[i].signal_id : i \in { j \in DOMAIN sigs :
        /\ sigs[j].status \in {"WIN", "LOSS", "TIMEOUT"}
        /\ ~sigs[j].result_analyzed } }

mark_signal_analyzed(sigs, signal_id) ==
    [i \in DOMAIN sigs |->
        IF sigs[i].signal_id = signal_id
        THEN [sigs[i] EXCEPT !.result_analyzed = TRUE]
        ELSE sigs[i]]

\* CoreBrainBot._process_learning over get_new_results: every row it was
\* handed ends up marked
_process_learning(sigs) ==
    [i \in DOMAIN sigs |->
        IF sigs[i].signal_id \in get_new_results(sigs)
        THEN mark_signal_analyzed(sigs, sigs[i].signal_id)[i]
        ELSE sigs[i]]

(************************* signal tracker **********************************)
TrackingResult(signal, st, price, pnl, reason, dur, ch) ==
    [signal_id |-> signal.signal_id, status |-> st, result_price |-> price,
     result_pnl |-> pnl, result_reason |-> reason, duration_minutes |-> dur,
     changed |-> ch]

\* _check_signal with the timeout tested before target and stop
CheckSignalTimeoutFirst(signal, current_price, t) ==
    LET duration_minutes == (t - signal.created_at) * StepMinutes
        tp == IF signal.direction = "LONG"
              THEN current_price >= signal.take_profit
              ELSE current_price <= signal.take_profit
        sl == IF signal.direction = "LONG"
              THEN current_price <= signal.stop_loss
              ELSE current_price >= signal.stop_loss
        pnl_cents == IF signal.direction = "LONG"
                     THEN ((current_price - signal.entry_price) * Notional * 100)
                              \div signal.entry_price
                     ELSE ((signal.entry_price - current_price) * Notional * 100)
                              \div signal.entry_price
    IN  IF duration_minutes >= MaxHoldMinutes
        THEN TrackingResult(signal, "TIMEOUT", current_price, pnl_cents,
                            "TIMEOUT", duration_minutes, TRUE)
        ELSE IF tp
        THEN TrackingResult(signal, "WIN", signal.take_profit, WinAmount,
                            "TP_HIT", duration_minutes, TRUE)
        ELSE IF sl
        THEN TrackingResult(signal, "LOSS", signal.stop_loss, LossAmount,
                            "SL_HIT", duration_minutes, TRUE)
        ELSE TrackingResult(signal, "PENDING", None, None, "",
                            duration_minutes, FALSE)

\* _check_signal with the timeout result computed as for a LONG
CheckSignalUnsignedPnl(signal, current_price, t) ==
    LET duration_minutes == (t - signal.created_at) * StepMinutes
        tp == IF signal.direction = "LONG"
              THEN current_price >= signal.take_profit
              ELSE current_price <= signal.take_profit
        sl == IF signal.direction = "LONG"
              THEN current_price <= signal.stop_loss
              ELSE current_price >= signal.stop_loss
        pnl_cents == ((current_price - signal.entry_price) * Notional * 100)
                         \div signal.entry_price
    IN  IF tp
        THEN TrackingResult(signal, "WIN", signal.take_profit, WinAmount,
                            "TP_HIT", duration_minutes, TRUE)
        ELSE IF sl
        THEN TrackingResult(signal, "LOSS", signal.stop_loss, LossAmount,
                            "SL_HIT", duration_minutes, TRUE)
        ELSE IF duration_minutes >= MaxHoldMinutes
        THEN TrackingResult(signal, "TIMEOUT", current_price, pnl_cents,
                            "TIMEOUT", duration_minutes, TRUE)
        ELSE TrackingResult(signal, "PENDING", None, None, "",
                            duration_minutes, FALSE)

_check_signal(signal, current_price, t) ==
    LET duration_minutes == (t - signal.created_at) * StepMinutes
        tp == IF signal.direction = "LONG"
              THEN current_price >= signal.take_profit
              ELSE current_price <= signal.take_profit
        sl == IF signal.direction = "LONG"
              THEN current_price <= signal.stop_loss
              ELSE current_price >= signal.stop_loss
        pnl_cents == IF signal.direction = "LONG"
                     THEN ((current_price - signal.entry_price) * Notional * 100)
                              \div signal.entry_price
                     ELSE ((signal.entry_price - current_price) * Notional * 100)
                              \div signal.entry_price
    IN  IF tp
        THEN TrackingResult(signal, "WIN", signal.take_profit, WinAmount,
                            "TP_HIT", duration_minutes, TRUE)
        ELSE IF sl
        THEN TrackingResult(signal, "LOSS", signal.stop_loss, LossAmount,
                            "SL_HIT", duration_minutes, TRUE)
        ELSE IF duration_minutes >= MaxHoldMinutes
        THEN TrackingResult(signal, "TIMEOUT", current_price, pnl_cents,
                            "TIMEOUT", duration_minutes, TRUE)
        ELSE TrackingResult(signal, "PENDING", None, None, "",
                            duration_minutes, FALSE)

\* SignalTracker.check_signals: the results, and the rows after its updates
CheckResults(sigs, current_price, t) ==
    LET pending == get_pending_signals(sigs)
    IN  [k \in 1 .. Len(pending) |-> _check_signal(pending[k], current_price, t)]

RECURSIVE ApplyResults(_, _, _)
ApplyResults(sigs, results, t) ==
    IF results = <<>>
    THEN sigs
    ELSE ApplyResults(IF Head(results).changed
                      THEN update_signal_result(sigs, Head(results), t)
                      ELSE sigs,
                      Tail(results), t)


(************************* state *******************************************)
VARIABLES
    now,              \* the clock, in steps of StepMinutes
    daily,            \* store: daily_state rows, by date
    signals,          \* store: signals rows, in creation order
    heartbeat,        \* store: status of the latest core_brain heartbeat
    e_current_date,   \* CoreBrainBot._current_date
    e_pc,             \* where the Signal Engine is in its tick
    e_daily_state,    \* the DailyState the tick read and hands to the gates
    tick_in,          \* market inputs of the tick being evaluated
    gate_result,      \* GateSystemResult of the tick
    v_current_date,   \* DailyStateManager._current_date
    v_pc,             \* where the Verifier is in its tick
    v_results,        \* changed TrackingResults still to be handled
    p_in,             \* features and regime handed to SignalGenerator.generate
    p_out,            \* what generate returned for them
    candles,          \* BinanceClient.data.candles of one timeframe
    k_last_price,     \* BinanceClient.data.last_price
    k_ts,             \* open time of the candle the exchange is forming
    rp_signal,        \* the Signal row two Verifier executions track
    rp_samples,       \* the PriceSample series both executions record
    rp_extremes,      \* SignalTracker.price_extremes of each execution
    rp_written,       \* what each execution wrote by update_signal_result
    st_signals,       \* store: signal_id of the rows of table signals
    st_price_tracking,\* store: rows of table price_tracking
    st_heartbeat,     \* store: rows of table heartbeat
    st_call,          \* the latest repository call and how it ended
    st_prev,          \* the three tables as they were before that call
    conn_pc,          \* where BinanceClient.connect is
    conn_running,     \* BinanceClient._running
    conn_data,        \* BinanceClient.data, summarised
    conn_close,       \* the latest stream close and what followed it
    lp_pc,            \* where each process is in _main_loop
    lp_running,       \* _running of each process
    lp_after          \* what each loop did since stop was called

corevars == <<now, daily, signals, heartbeat, e_current_date, e_pc,
              e_daily_state, tick_in, gate_result, v_current_date, v_pc,
              v_results>>

\* state of the components that are modelled on their own
proposervars == <<p_in, p_out>>

klinevars == <<candles, k_last_price, k_ts>>

replayvars == <<rp_signal, rp_samples, rp_extremes, rp_written>>

storevars == <<st_signals, st_price_tracking, st_heartbeat, st_call, st_prev>>

\* the component groups added to the four above
connvars == <<conn_pc, conn_running, conn_data, conn_close>>

loopvars == <<lp_pc, lp_running, lp_after>>

extvars == <<storevars, connvars, loopvars>>

basevars == <<corevars, proposervars, klinevars, replayvars>>

auxvars == <<proposervars, klinevars, replayvars, extvars>>

vars == <<corevars, auxvars>>

Today == DateOf(now)

(************************* inputs ******************************************)
GoodRegime ==
    [regime_type |-> "RANGING", confidence |-> 78, exhaustion_risk |-> 30,
     structure_quality |-> 75]

GoodAI(d) == [confidence |-> 72, direction |-> d, risk_factors |-> 0]

\* a tick on which every market-side gate passes
GoodInput(d) ==
    [last_price |-> 4000, hour |-> 14, funding |-> 240, regime |-> GoodRegime,
     proposal |-> [direction |-> d, setup_quality |-> 80],
     mtf_alignment |-> 3, rsi_14 |-> 48, ai |-> GoodAI(d)]

NoInput == [GoodInput("NONE") EXCEPT !.last_price = 0, !.proposal = NoProposal,
                                     !.ai = NoAI]

\* the ticks the two-process specification draws from
TickInputs ==
    { [i EXCEPT !.hour = h] :
        i \in { GoodInput("LONG"),
                [GoodInput("LONG") EXCEPT !.last_price = 0],
                [GoodInput("LONG") EXCEPT !.ai = NoAI] },
        h \in {9, 14} }
    \cup { [GoodInput("LONG") EXCEPT !.hour = 22] }

\* ticks that differ in the classifier's answer only
GuardInputs ==
    { [GoodInput("LONG") EXCEPT !.hour = h, !.ai = a] :
        h \in {9, 14, 22},
        a \in { GoodAI("LONG"), GoodAI("SHORT"), GoodAI("NO_TRADE"), NoAI,
                [GoodAI("LONG") EXCEPT !.confidence = 64] } }

\* the ticks the Engine-alone specification draws from
AllRegimes ==
    { GoodRegime,
      [GoodRegime EXCEPT !.regime_type = "CHOPPY"],
      [GoodRegime EXCEPT !.exhaustion_risk = 50],
      [GoodRegime EXCEPT !.structure_quality = 59],
      [GoodRegime EXCEPT !.confidence = 64] }

AllProposals ==
    { NoProposal, [direction |-> "LONG", setup_quality |-> 80],
      [direction |-> "SHORT", setup_quality |-> 80] }

AllAI ==
    {NoAI} \cup [confidence : {64, 65}, direction : {"LONG", "SHORT", "NO_TRADE"},
                 risk_factors : {1, 2}]

\* ticks that reach the gates: every combination of the gate inputs
EvaluatedInputs ==
    { [last_price |-> lp, hour |-> h, funding |-> f, regime |-> r,
       proposal |-> p, mtf_alignment |-> q[1], rsi_14 |-> q[2], ai |-> a] :
      lp \in {400, 4000}, h \in {3, 14, 22}, f \in {20, 240},
      r \in { x \in AllRegimes : x.regime_type # "CHOPPY" },
      p \in AllProposals \ {NoProposal},
      q \in {<<2, 50>>, <<1, 50>>, <<2, 81>>, <<2, 19>>}, a \in AllAI }

\* ticks that end before the gates: no market data, CHOPPY, no proposal
SkippedInputs ==
    { [i EXCEPT !.hour = h] :
        i \in { [GoodInput("LONG") EXCEPT !.last_price = 0],
                [GoodInput("SHORT") EXCEPT
                    !.regime = [GoodRegime EXCEPT !.regime_type = "CHOPPY"]],
                [GoodInput("LONG") EXCEPT !.proposal = NoProposal] },
        h \in {3, 14} }

AllInputs == EvaluatedInputs \cup SkippedInputs

\* the prices the ticker may return; 0 stands for a failed fetch
Prices == {0, 3980, 4004, 4020}

\* the prices of the Verifier-alone specification: the stops and targets of
\* TrackedSignals, their neighbours and points in between
TrackerPrices ==
    {0, 398, 399, 400, 401, 402,
     3979, 3980, 3985, 3990, 3991, 4000, 4009, 4010, 4015, 4019, 4020, 4021}

\* the PENDING rows the Verifier-alone specification starts from
TrackedSignals ==
    { Signal(1, 0, [GoodInput(d) EXCEPT !.last_price = lp]) :
        d \in {"LONG", "SHORT"}, lp \in {400, 4000} }

(************************* Strategy Proposer *******************************)
\* features are in integer units: funding in 1e-5, liquidation distances in
\* 1e-3, densities in millions, ratios and imbalance in percent, key level
\* distance in 1e-4
_validate_direction_vs_regime(direction, regime) ==
    IF regime.regime_type = "TRENDING_UP" /\ direction = "SHORT"
    THEN regime.exhaustion_risk > 70
    ELSE IF regime.regime_type = "TRENDING_DOWN" /\ direction = "LONG"
    THEN regime.exhaustion_risk > 70
    ELSE TRUE

Abs(x) == IF x < 0 THEN 0 - x ELSE x

_validate_trend_momentum(features, direction) ==
    IF direction = "LONG"
    THEN /\ features.ema_9 > features.ema_21
         /\ features.ema_21 > features.ema_50
         /\ Abs(features.current_price - features.ema_21) * 1000
                <= 3 * features.ema_21
         /\ ~(features.rsi_14 < 40 \/ features.rsi_14 > 60)
         /\ ~(features.cvd_trend < 0)
         /\ ~(features.has_funding /\ features.funding_current > 50)
    ELSE /\ features.ema_9 < features.ema_21
         /\ features.ema_21 < features.ema_50
         /\ Abs(features.current_price - features.ema_21) * 1000
                <= 3 * features.ema_21
         /\ ~(features.rsi_14 < 40 \/ features.rsi_14 > 60)
         /\ ~(features.cvd_trend > 0)

_validate_funding_fade(features, regime) ==
    LET allow_counter_trend == regime.exhaustion_risk > 70
    IN  IF ~features.has_funding
        THEN "NONE"
        ELSE IF regime.regime_type = "TRENDING_UP"
        THEN IF features.funding_current < 0 - 100 /\ features.rsi_14 < 50
             THEN "LONG"
             ELSE IF /\ features.funding_current > 100
                     /\ allow_counter_trend
                     /\ features.rsi_14 > 70
             THEN "SHORT"
             ELSE "NONE"
        ELSE IF regime.regime_type = "TRENDING_DOWN"
        THEN IF features.funding_current > 100 /\ features.rsi_14 > 50
             THEN "SHORT"
             ELSE IF /\ features.funding_current < 0 - 100
                     /\ allow_counter_trend
                     /\ features.rsi_14 < 30
             THEN "LONG"
             ELSE "NONE"
        ELSE IF features.funding_current > 100 /\ features.rsi_14 > 60
        THEN "SHORT"
        ELSE IF features.funding_current < 0 - 100 /\ features.rsi_14 < 40
        THEN "LONG"
        ELSE "NONE"

_validate_liquidation_hunt(features, regime) ==
    LET hunt_shorts == /\ features.distance_to_short_liq < 20
                       /\ features.short_liq_density_2pct > 5
                       /\ features.orderbook_imbalance > 10
                       /\ features.cvd_trend > 0
        hunt_longs == /\ features.distance_to_long_liq < 20
                      /\ features.long_liq_density_2pct > 5
                      /\ features.orderbook_imbalance < 0 - 10
                      /\ features.cvd_trend < 0
    IN  IF regime.regime_type = "TRENDING_UP"
        THEN IF hunt_shorts THEN "LONG" ELSE "NONE"
        ELSE IF regime.regime_type = "TRENDING_DOWN"
        THEN IF hunt_longs THEN "SHORT" ELSE "NONE"
        ELSE IF hunt_shorts THEN "LONG"
        ELSE IF hunt_longs THEN "SHORT"
        ELSE "NONE"

_validate_range_scalping(features) ==
    IF features.rsi_14 < 35 /\ features.lower_wick_ratio > 50 /\ features.cvd > 0
    THEN "LONG"
    ELSE IF /\ features.rsi_14 > 65
            /\ features.upper_wick_ratio > 50
            /\ features.cvd < 0
    THEN "SHORT"
    ELSE "NONE"

StrategyChoice(strategy, direction) ==
    [strategy |-> strategy, direction |-> direction]

_select_strategy(features, regime) ==
    LET fade == IF features.has_funding /\ Abs(features.funding_current) > 100
                THEN _validate_funding_fade(features, regime)
                ELSE "NONE"
        hunt == IF \/ features.distance_to_long_liq < 20
                   \/ features.distance_to_short_liq < 20
                THEN _validate_liquidation_hunt(features, regime)
                ELSE "NONE"
    IN  IF fade # "NONE"
        THEN StrategyChoice("FUNDING_FADE", fade)
        ELSE IF hunt # "NONE"
        THEN StrategyChoice("LIQUIDATION_HUNT", hunt)
        ELSE IF regime.regime_type = "TRENDING_UP"
        THEN IF _validate_trend_momentum(features, "LONG")
             THEN StrategyChoice("TREND_MOMENTUM", "LONG")
             ELSE StrategyChoice("NONE", "NONE")
        ELSE IF regime.regime_type = "TRENDING_DOWN"
        THEN IF _validate_trend_momentum(features, "SHORT")
             THEN StrategyChoice("TREND_MOMENTUM", "SHORT")
             ELSE StrategyChoice("NONE", "NONE")
        ELSE IF regime.regime_type = "RANGING"
        THEN LET direction == _validate_range_scalping(features)
             IN  IF direction # "NONE"
                 THEN StrategyChoice("RANGE_SCALPING", direction)
                 ELSE StrategyChoice("NONE", "NONE")
        ELSE IF regime.regime_type = "HIGH_VOLATILITY"
        THEN LET direction == _validate_liquidation_hunt(features, regime)
             IN  IF direction # "NONE"
                 THEN StrategyChoice("LIQUIDATION_HUNT", direction)
                 ELSE StrategyChoice("NONE", "NONE")
        ELSE StrategyChoice("NONE", "NONE")

_calculate_setup_quality(features, direction) ==
    LET long == direction = "LONG"
        mtf_score == features.mtf_confluence_score \div 5
        cvd_score == IF long
                     THEN (IF features.cvd_trend > 0 THEN 10 ELSE 0)
                     ELSE (IF features.cvd_trend < 0 THEN 10 ELSE 0)
        aggressor_score == IF long
                           THEN (IF features.aggressor_ratio > 50 THEN 10 ELSE 5)
                           ELSE (IF features.aggressor_ratio < 50 THEN 10 ELSE 5)
        level_score == IF features.key_level_distance < 50 THEN 15
                       ELSE IF features.key_level_distance < 100 THEN 10 ELSE 5
        onchain_score == IF features.whale_activity_score > 60 THEN 15
                         ELSE IF features.whale_activity_score > 40 THEN 10
                         ELSE 5
        up == features.macd_histogram > 0
        up3 == features.tf_3m_momentum > 0
        down == features.macd_histogram < 0
        down3 == features.tf_3m_momentum < 0
        momentum_score == IF long
                          THEN (IF up /\ up3 THEN 15
                                ELSE IF up \/ up3 THEN 10 ELSE 5)
                          ELSE (IF down /\ down3 THEN 15
                                ELSE IF down \/ down3 THEN 10 ELSE 5)
        micro_score == IF features.orderbook_imbalance > 10 /\ long THEN 15
                       ELSE IF features.orderbook_imbalance < 0 - 10 /\ ~long
                       THEN 15
                       ELSE IF Abs(features.orderbook_imbalance) < 10 THEN 10
                       ELSE 5
        score == mtf_score + cvd_score + aggressor_score + level_score
                     + onchain_score + momentum_score + micro_score
    IN  IF score > 100 THEN 100 ELSE IF score < 0 THEN 0 ELSE score

\* generate with the strategies selected as in a RANGING regime and without
\* the final direction validation
GenerateIgnoringTrend(features, regime) ==
    IF regime.regime_type = "CHOPPY"
    THEN NoProposal
    ELSE LET choice == _select_strategy(features,
                           [regime EXCEPT !.regime_type = "RANGING"])
             setup_quality == _calculate_setup_quality(features, choice.direction)
         IN  IF choice.strategy = "NONE" \/ choice.direction = "NONE"
             THEN NoProposal
             ELSE IF setup_quality < 70
             THEN NoProposal
             ELSE [direction |-> choice.direction,
                   setup_quality |-> setup_quality]

\* SignalGenerator.generate: the proposal, or NoProposal for None
generate(features, regime) ==
    IF regime.regime_type = "CHOPPY"
    THEN NoProposal
    ELSE LET choice == _select_strategy(features, regime)
             setup_quality == _calculate_setup_quality(features, choice.direction)
         IN  IF choice.strategy = "NONE" \/ choice.direction = "NONE"
             THEN NoProposal
             ELSE IF ~_validate_direction_vs_regime(choice.direction, regime)
             THEN NoProposal
             ELSE IF setup_quality < 70
             THEN NoProposal
             ELSE [direction |-> choice.direction,
                   setup_quality |-> setup_quality]

\* market conditions under which some strategy fires in each direction
BaseFeatures ==
    [has_funding |-> TRUE, funding_current |-> 0, rsi_14 |-> 45,
     distance_to_long_liq |-> 30, distance_to_short_liq |-> 30,
     long_liq_density_2pct |-> 9, short_liq_density_2pct |-> 9,
     orderbook_imbalance |-> 20, cvd_trend |-> 1, cvd |-> 1,
     ema_9 |-> 4010, ema_21 |-> 4005, ema_50 |-> 3990, current_price |-> 4000,
     lower_wick_ratio |-> 70, upper_wick_ratio |-> 70,
     mtf_confluence_score |-> 100, aggressor_ratio |-> 50,
     key_level_distance |-> 40, whale_activity_score |-> 70,
     macd_histogram |-> 0, tf_3m_momentum |-> 0]

ProposerFeatures ==
    { [BaseFeatures EXCEPT
          !.funding_current = f, !.rsi_14 = rsi,
          !.distance_to_long_liq = z[1], !.distance_to_short_liq = z[2],
          !.orderbook_imbalance = flow * 20, !.cvd_trend = flow, !.cvd = flow,
          !.ema_9 = 4005 + 5 * ema, !.ema_50 = 4005 - 15 * ema,
          !.mtf_confluence_score = mtf] :
      f \in {0 - 150, 0, 150}, rsi \in {25, 45, 55, 75},
      z \in {<<30, 30>>, <<10, 30>>, <<30, 10>>}, flow \in {0 - 1, 1},
      ema \in {0 - 1, 1}, mtf \in {50, 100} }
    \cup { [BaseFeatures EXCEPT !.has_funding = FALSE] }

ProposerRegimes ==
    { [GoodRegime EXCEPT !.regime_type = r, !.exhaustion_risk = x] :
        r \in {"TRENDING_UP", "TRENDING_DOWN", "RANGING", "HIGH_VOLATILITY",
               "CHOPPY"},
        x \in {30, 70, 71} }

(************************* the classifier without trained models ***********)
\* a heuristic that answers NO_TRADE only for 45 <= rsi <= 55
MockPredictionNarrow(rsi, adx) ==
    LET direction == IF rsi < 45 THEN "LONG"
                     ELSE IF rsi > 55 THEN "SHORT" ELSE "NO_TRADE"
        base == IF rsi < 45 THEN 60 + (45 - rsi)
                ELSE IF rsi > 55 THEN 60 + (rsi - 55) ELSE 50
        adjusted == IF adx > 25 THEN base + 10 ELSE base
        confidence == IF adjusted > 95 THEN 95
                      ELSE IF adjusted < 30 THEN 30 ELSE adjusted
    IN  [confidence |-> confidence, direction |-> direction, risk_factors |-> 1]

\* AIModel._mock_prediction on feature_vector[1] (rsi_14) and
\* feature_vector[14] (adx); confidence in hundredths, risk_factors counted
_mock_prediction(rsi, adx) ==
    LET direction == IF rsi < 35 THEN "LONG"
                     ELSE IF rsi > 65 THEN "SHORT" ELSE "NO_TRADE"
        base == IF rsi < 35 THEN 60 + (35 - rsi)
                ELSE IF rsi > 65 THEN 60 + (rsi - 65) ELSE 50
        adjusted == IF adx > 25 THEN base + 10 ELSE base
        confidence == IF adjusted > 95 THEN 95
                      ELSE IF adjusted < 30 THEN 30 ELSE adjusted
    IN  [confidence |-> confidence, direction |-> direction, risk_factors |-> 1]

(************************* ticks from features to the final guard **********)
PipelineFeatures ==
    { [BaseFeatures EXCEPT
          !.funding_current = f, !.rsi_14 = rsi,
          !.distance_to_long_liq = z[1], !.distance_to_short_liq = z[2],
          !.orderbook_imbalance = flow * 20, !.cvd_trend = flow, !.cvd = flow,
          !.ema_9 = 4005 + 5 * ema, !.ema_50 = 4005 - 15 * ema] :
      f \in {0 - 150, 0, 150},
      rsi \in {25, 34, 35, 40, 50, 60, 65, 66, 75},
      z \in {<<30, 30>>, <<10, 30>>, <<30, 10>>}, flow \in {0 - 1, 1},
      ema \in {0 - 1, 1} }

PipelineRegimes ==
    { [GoodRegime EXCEPT !.regime_type = r, !.exhaustion_risk = x] :
        r \in {"TRENDING_UP", "TRENDING_DOWN", "RANGING", "HIGH_VOLATILITY"},
        x \in {30, 50, 71} }

\* the classifier's answer: the heuristic when no model is loaded, any
\* confident direction when trained models are
PipelineAI(features, adx) ==
    [mode : {"heuristic"}, ai : {_mock_prediction(features.rsi_14, adx)}]
    \cup [mode : {"trained"}, ai : {GoodAI("LONG"), GoodAI("SHORT")}]

\* one tick of _main_loop from the features on: the proposal is what
\* generate returns and the classifier sees the same features
PipelineTick(f, rg, c) ==
    [last_price |-> 4000, hour |-> 9, funding |-> 240, regime |-> rg,
     proposal |-> generate(f, rg), mtf_alignment |-> 3,
     rsi_14 |-> f.rsi_14, ai |-> c.ai, mode |-> c.mode, features |-> f]

\* the ticks on given features and regime
PipelineInputs(f, rg) ==
    UNION { { PipelineTick(f, rg, c) : c \in PipelineAI(f, adx) } :
            adx \in {20, 30} }

NoFeatures == [BaseFeatures EXCEPT !.has_funding = FALSE, !.current_price = 0]

\* generate has not been called
NotCalled == [direction |-> "NOT_CALLED", setup_quality |-> 0]

ProposerIdle ==
    /\ p_in = [features |-> NoFeatures, regime |-> GoodRegime]
    /\ p_out = NotCalled

\* the call of signal_generator.generate on the features and regime of p_in
Proposer_generate ==
    /\ p_out = NotCalled
    /\ p_out' = generate(p_in.features, p_in.regime)
    /\ UNCHANGED <<p_in, corevars, klinevars, replayvars, extvars>>

ProposerNext ==
    \/ Proposer_generate

(************************* market data: klines *****************************)
Candle(timestamp, close, is_closed) ==
    [timestamp |-> timestamp, close |-> close, is_closed |-> is_closed]

\* deque.append on a deque(maxlen = CandlesMaxLen)
DequeAppend(q, x) ==
    IF Len(q) >= CandlesMaxLen THEN Append(Tail(q), x) ELSE Append(q, x)

\* the candles of the timeframe after _handle_kline(candle)
_handle_kline(q, candle) ==
    IF q # <<>> /\ ~candle.is_closed
    THEN IF q[Len(q)].timestamp = candle.timestamp
         THEN [q EXCEPT ![Len(q)] = candle]
         ELSE DequeAppend(q, candle)
    ELSE IF candle.is_closed
    THEN DequeAppend(q, candle)
    ELSE q

\* fetch_historical_candles: the n latest candles, every one built with
\* is_closed = True; an empty list when the request failed
HistoricalCandles(n) == [i \in 1 .. n |-> Candle(i, 4000, TRUE)]

KlineCloses == {4000, 4004}

KlineIdle ==
    /\ candles = <<>>
    /\ k_last_price = 0
    /\ k_ts = 0

\* connect: the history is loaded, then the stream starts; the candle the
\* exchange is forming is the last one of the history or the one after it
Kline_connect ==
    /\ k_ts = 0
    /\ \E n \in 0 .. MaxHistory :
          /\ candles' = HistoricalCandles(n)
          /\ k_ts' \in {IF n = 0 THEN 1 ELSE n, n + 1}
    /\ UNCHANGED <<k_last_price, corevars, proposervars, replayvars, extvars>>

\* a kline event for the forming candle, not closed
Kline_update ==
    /\ k_ts > 0
    /\ \E close \in KlineCloses :
          /\ candles' = _handle_kline(candles, Candle(k_ts, close, FALSE))
          /\ k_last_price' = close
    /\ UNCHANGED <<k_ts, corevars, proposervars, replayvars, extvars>>

\* the kline event that closes the forming candle; the next one starts
Kline_close ==
    /\ k_ts > 0
    /\ k_ts < MaxKlineTs
    /\ \E close \in KlineCloses :
          /\ candles' = _handle_kline(candles, Candle(k_ts, close, TRUE))
          /\ k_last_price' = close
    /\ k_ts' = k_ts + 1
    /\ UNCHANGED <<corevars, proposervars, replayvars, extvars>>

KlineNext ==
    \/ Kline_connect
    \/ Kline_update
    \/ Kline_close

(************************* signal tracker: MFE and MAE *********************)
\* no entry in price_extremes
NoExtremes == [max |-> 0, min |-> 0]

_update_extremes(extremes, price) ==
    IF extremes = NoExtremes
    THEN [max |-> price, min |-> price]
    ELSE [max |-> IF price > extremes.max THEN price ELSE extremes.max,
          min |-> IF price < extremes.min THEN price ELSE extremes.min]

\* excursions in hundredths of a percent of the entry price
_calculate_mfe_mae(extremes, entry_price, direction) ==
    IF extremes = NoExtremes
    THEN [mfe |-> 0, mae |-> 0]
    ELSE LET up == ((extremes.max - entry_price) * 10000) \div entry_price
             down == ((entry_price - extremes.min) * 10000) \div entry_price
             mfe == IF direction = "LONG" THEN up ELSE down
             mae == IF direction = "LONG" THEN down ELSE up
         IN  [mfe |-> IF mfe > 0 THEN mfe ELSE 0,
              mae |-> IF mae > 0 THEN mae ELSE 0]

NotWritten == [status |-> "PENDING", result_price |-> None, mfe |-> 0, mae |-> 0]

NotTracked == [Signal(0, 0, GoodInput("LONG")) EXCEPT !.status = "NONE"]

\* the two executions: one Verifier process throughout, and one that may be
\* restarted between two samples
Runs == {"steady", "restarted"}

ReplayPrices == {399, 401, 3985, 3995, 4005, 4015, 4025}

ReplayIdle ==
    /\ rp_signal = NotTracked
    /\ rp_samples = <<>>
    /\ rp_extremes = [run \in Runs |-> NoExtremes]
    /\ rp_written = [run \in Runs |-> NotWritten]

\* _check_signal in both executions on the same fetched price: extremes,
\* the recorded sample, and update_signal_result when the status changed
Replay_check_signal ==
    /\ \A run \in Runs : rp_written[run] = NotWritten
    /\ Len(rp_samples) < MaxSamples
    /\ \E current_price \in ReplayPrices :
          LET result == _check_signal(rp_signal, current_price, now)
              extremes == [run \in Runs |->
                              _update_extremes(rp_extremes[run], current_price)]
              excursion == [run \in Runs |->
                               _calculate_mfe_mae(extremes[run],
                                                  rp_signal.entry_price,
                                                  rp_signal.direction)]
          IN  /\ rp_samples' = Append(rp_samples,
                                      [price |-> current_price, timestamp |-> now])
              /\ rp_extremes' = IF result.changed
                                THEN [run \in Runs |-> NoExtremes]
                                ELSE extremes
              /\ rp_written' = IF result.changed
                               THEN [run \in Runs |->
                                        [status |-> result.status,
                                         result_price |-> result.result_price,
                                         mfe |-> excursion[run].mfe,
                                         mae |-> excursion[run].mae]]
                               ELSE rp_written
    /\ UNCHANGED <<rp_signal, corevars, proposervars, klinevars, extvars>>

\* the Verifier process of the second execution is restarted: a new
\* SignalTracker starts with empty price_extremes
Replay_restart ==
    /\ rp_written["restarted"] = NotWritten
    /\ rp_extremes["restarted"] # NoExtremes
    /\ rp_extremes' = [rp_extremes EXCEPT !["restarted"] = NoExtremes]
    /\ UNCHANGED <<rp_signal, rp_samples, rp_written, corevars, proposervars,
                   klinevars, extvars>>

(************************* the store: append paths *************************)
\* rows a table holds at most in this model
MaxStoreRows == 2

StoreSignalIds == {1, 2}

StoreTimes == {0, 1}

\* Repository.save_signal: session.add and commit of a row whose primary key
\* is signal_id; the commit of a second row with the same key raises
\* IntegrityError and the table keeps the first row
save_signal(table, signal_id) ==
    IF signal_id \in table
    THEN [table |-> table, raised |-> TRUE]
    ELSE [table |-> table \cup {signal_id}, raised |-> FALSE]

\* Repository.add_price_tracking: a new row under the next autoincrement id
add_price_tracking(table, signal_id, t, price) ==
    [table |-> Append(table, [id |-> Len(table) + 1, signal_id |-> signal_id,
                              timestamp |-> t, price |-> price]),
     raised |-> FALSE]

\* Repository.ping_heartbeat: a new row under the next autoincrement id
ping_heartbeat(table, t, status) ==
    [table |-> Append(table, [id |-> Len(table) + 1, bot_name |-> "core_brain",
                              timestamp |-> t, status |-> status]),
     raised |-> FALSE]

NoCall == [op |-> "none", retry |-> FALSE, raised |-> FALSE]

StoreTables == <<st_signals, st_price_tracking, st_heartbeat>>

\* the calls of the three append paths, by their natural key
StoreCalls ==
    [op : {"save_signal"}, signal_id : StoreSignalIds]
    \cup [op : {"add_price_tracking"}, signal_id : StoreSignalIds,
          t : StoreTimes, price : {4000}]
    \cup [op : {"ping_heartbeat"}, t : StoreTimes,
          status : {"running", "waiting"}]

StoreIdle ==
    /\ st_signals = {}
    /\ st_price_tracking = <<>>
    /\ st_heartbeat = <<>>
    /\ st_call = NoCall
    /\ st_prev = <<{}, <<>>, <<>>>>

\* one repository call on the tables
StoreApply(call, retry) ==
    /\ st_prev' = StoreTables
    /\ CASE call.op = "save_signal" ->
              LET r == save_signal(st_signals, call.signal_id)
              IN  /\ st_signals' = r.table
                  /\ st_call' = [call |-> call, op |-> call.op, retry |-> retry,
                                 raised |-> r.raised]
                  /\ UNCHANGED <<st_price_tracking, st_heartbeat>>
         [] call.op = "add_price_tracking" ->
              LET r == add_price_tracking(st_price_tracking, call.signal_id,
                                          call.t, call.price)
              IN  /\ Len(st_price_tracking) < MaxStoreRows
                  /\ st_price_tracking' = r.table
                  /\ st_call' = [call |-> call, op |-> call.op, retry |-> retry,
                                 raised |-> r.raised]
                  /\ UNCHANGED <<st_signals, st_heartbeat>>
         [] call.op = "ping_heartbeat" ->
              LET r == ping_heartbeat(st_heartbeat, call.t, call.status)
              IN  /\ Len(st_heartbeat) < MaxStoreRows
                  /\ st_heartbeat' = r.table
                  /\ st_call' = [call |-> call, op |-> call.op, retry |-> retry,
                                 raised |-> r.raised]
                  /\ UNCHANGED <<st_signals, st_price_tracking>>
    /\ UNCHANGED <<basevars, connvars, loopvars>>

\* a caller performs one of the append paths
Store_call ==
    \E call \in StoreCalls : StoreApply(call, FALSE)

\* the caller performs its latest call again, with the same arguments
Store_retry ==
    /\ st_call.op # "none"
    /\ ~st_call.raised
    /\ StoreApply(st_call.call, TRUE)

StoreNext ==
    \/ Store_call
    \/ Store_retry

(************************* market data: the connection *********************)
\* stream closes of one run of connect
MaxCloses == 2

\* events of one kind (candles, trades) the stored data counts
MaxStreamEvents == 2

\* BinanceClient.data after __init__: empty deques, no book, no funding
EmptyMarketData ==
    [candles |-> 0, trades |-> 0, orderbook |-> 0, funding |-> 0,
     last_price |-> 0]

\* connect, before the loop: history of every timeframe, book and funding
LoadedMarketData(data) ==
    [data EXCEPT !.candles = 1, !.orderbook = 1, !.funding = 1]

\* _process_message: the stored data after one stream event
StreamEvents(data) ==
    { [data EXCEPT !.candles = IF @ < MaxStreamEvents THEN @ + 1 ELSE @,
                   !.last_price = 4000],
      [data EXCEPT !.trades = IF @ < MaxStreamEvents THEN @ + 1 ELSE @,
                   !.last_price = 4010],
      [data EXCEPT !.orderbook = 2],
      [data EXCEPT !.funding = 2] }

NoClose == [n |-> 0, waited |-> FALSE, attempted |-> FALSE,
            data |-> EmptyMarketData]

\* the stream of the current connection is closed
StreamClosed(close, data) ==
    [n |-> close.n + 1, waited |-> FALSE, attempted |-> FALSE, data |-> data]

ConnIdle ==
    /\ conn_pc = "new"
    /\ conn_running = FALSE
    /\ conn_data = EmptyMarketData
    /\ conn_close = NoClose

\* connect up to the outer loop
Conn_connect ==
    /\ conn_pc = "new"
    /\ conn_data' = LoadedMarketData(conn_data)
    /\ conn_running' = TRUE
    /\ conn_pc' = "connect"
    /\ UNCHANGED <<conn_close, basevars, storevars, loopvars>>

\* the outer loop test and websockets.connect, which succeeds or raises
Conn_open ==
    /\ conn_pc = "connect"
    /\ IF conn_running
       THEN /\ conn_pc' \in {"recv", "except"}
            /\ conn_close' = [conn_close EXCEPT !.attempted = TRUE]
       ELSE /\ conn_pc' = "done"
            /\ UNCHANGED conn_close
    /\ UNCHANGED <<conn_running, conn_data, basevars, storevars, loopvars>>

\* the inner loop: a message arrives and _process_message stores it
Conn_recv ==
    /\ conn_pc = "recv"
    /\ conn_running
    /\ conn_data' \in StreamEvents(conn_data) \ {conn_data}
    /\ UNCHANGED <<conn_pc, conn_running, conn_close, basevars, storevars, loopvars>>

\* the inner loop: 30 s without a message. A ping that succeeds changes
\* nothing; a ping that raises ConnectionClosed does so inside the
\* TimeoutError handler, where only the outer handler catches it
Conn_timeout ==
    /\ conn_pc = "recv"
    /\ conn_running
    /\ conn_close.n < MaxCloses
    /\ conn_close' = StreamClosed(conn_close, conn_data)
    /\ conn_pc' = "except"
    /\ UNCHANGED <<conn_running, conn_data, basevars, storevars, loopvars>>

\* the inner loop: recv raises ConnectionClosed; break, and the outer loop
\* goes round
Conn_closed ==
    /\ conn_pc = "recv"
    /\ conn_close.n < MaxCloses
    /\ conn_close' = StreamClosed(conn_close, conn_data)
    /\ conn_pc' = "connect"
    /\ UNCHANGED <<conn_running, conn_data, basevars, storevars, loopvars>>

\* the outer handler: sleep(5) while running
Conn_except ==
    /\ conn_pc = "except"
    /\ conn_close' = [conn_close EXCEPT !.waited = conn_running]
    /\ conn_pc' = "connect"
    /\ UNCHANGED <<conn_running, conn_data, basevars, storevars, loopvars>>

\* disconnect
Conn_disconnect ==
    /\ conn_running
    /\ conn_running' = FALSE
    /\ UNCHANGED <<conn_pc, conn_data, conn_close, basevars, storevars, loopvars>>

ConnNext ==
    \/ Conn_connect
    \/ Conn_open
    \/ Conn_recv
    \/ Conn_timeout
    \/ Conn_closed
    \/ Conn_except
    \/ Conn_disconnect

(************************* main loops: shutdown ****************************)
Processes == {"core_brain", "heartbeat"}

\* ticks counted after stop
MaxLateTicks == 2

NotStopped == [requested |-> FALSE, ticks |-> 0, tests |-> 0, erred |-> FALSE]

LoopIdle ==
    /\ lp_pc = [p \in Processes |-> "new"]
    /\ lp_running = [p \in Processes |-> FALSE]
    /\ lp_after = [p \in Processes |-> NotStopped]

\* a loop that never tests the flag
LoopConditionAlways(p) == TRUE

\* 'while self._running'
LoopCondition(p) == lp_running[p]

\* start: _running = True, then _main_loop
Loop_start(p) ==
    /\ lp_pc[p] = "new"
    /\ lp_running' = [lp_running EXCEPT ![p] = TRUE]
    /\ lp_pc' = [lp_pc EXCEPT ![p] = "test"]
    /\ UNCHANGED <<lp_after, basevars, storevars, connvars>>

\* the loop test at a tick boundary: the next tick starts or the loop ends
Loop_test(p) ==
    /\ lp_pc[p] = "test"
    /\ LET go == LoopCondition(p)
           late == lp_after[p].requested
       IN  /\ lp_pc' = [lp_pc EXCEPT ![p] = IF go THEN "tick" ELSE "exited"]
           /\ lp_after' =
                [lp_after EXCEPT
                    ![p].tests = IF late /\ @ < MaxLateTicks THEN @ + 1 ELSE @,
                    ![p].ticks = IF late /\ go /\ @ < MaxLateTicks
                                 THEN @ + 1 ELSE @]
    /\ UNCHANGED <<lp_running, basevars, storevars, connvars>>

\* the body of a tick: it reaches one of its sleeps (end of the cycle, or
\* the sleep before a 'continue'), or a call raises
Loop_tick(p) ==
    /\ lp_pc[p] = "tick"
    /\ \E next \in {"sleep", "handler"} :
        /\ lp_pc' = [lp_pc EXCEPT ![p] = next]
        /\ lp_after' =
             [lp_after EXCEPT
                 ![p].erred = @ \/ (lp_after[p].requested /\ next = "handler")]
    /\ UNCHANGED <<lp_running, basevars, storevars, connvars>>

\* the sleep of the tick ends
Loop_sleep(p) ==
    /\ lp_pc[p] = "sleep"
    /\ lp_pc' = [lp_pc EXCEPT ![p] = "test"]
    /\ UNCHANGED <<lp_running, lp_after, basevars, storevars, connvars>>

\* 'except Exception': log, sleep(10). In the Signal Engine the handler
\* first sends the error heartbeat; when that raises the exception leaves
\* _main_loop and the 'finally' of start calls stop
Loop_handler(p) ==
    /\ lp_pc[p] = "handler"
    /\ \/ /\ lp_pc' = [lp_pc EXCEPT ![p] = "test"]
          /\ UNCHANGED <<lp_running, lp_after>>
       \/ /\ p = "core_brain"
          /\ lp_pc' = [lp_pc EXCEPT ![p] = "exited"]
          /\ lp_running' = [lp_running EXCEPT ![p] = FALSE]
          /\ lp_after' = [lp_after EXCEPT ![p].requested = TRUE]
    /\ UNCHANGED <<basevars, storevars, connvars>>

\* stop, run by the signal handler while the loop waits in an await
Loop_stop(p) ==
    /\ lp_pc[p] \in {"tick", "sleep", "handler"}
    /\ lp_running[p]
    /\ lp_running' = [lp_running EXCEPT ![p] = FALSE]
    /\ lp_after' = [lp_after EXCEPT ![p].requested = TRUE]
    /\ UNCHANGED <<lp_pc, basevars, storevars, connvars>>

LoopStep(p) ==
    \/ Loop_test(p)
    \/ Loop_tick(p)
    \/ Loop_sleep(p)
    \/ Loop_handler(p)

LoopNext ==
    \E p \in Processes :
        \/ Loop_start(p)
        \/ LoopStep(p)
        \/ Loop_stop(p)

\* every added component at rest
ExtIdle == StoreIdle /\ ConnIdle /\ LoopIdle

(************************* Signal Engine ***********************************)
\* CoreBrainBot._get_daily_state: the dataclass built from the row
EngineDailyState(row) ==
    [date |-> row.date, pnl |-> row.pnl, trade_count |-> row.trade_count,
     wins |-> row.wins, losses |-> row.losses,
     consecutive_losses |-> row.consecutive_losses,
     has_position |-> row.has_position, status |-> row.status,
     last_trade_time |-> NoTime]

NoDailyState == EngineDailyState(NoRow)

\* the final guard without the gate verdict
ApprovedIgnoringGates(gr, ai_result, proposal) ==
    /\ ai_result # NoAI
    /\ ai_result.confidence >= ConfidenceThreshold
    /\ ai_result.direction # "NO_TRADE"
    /\ ai_result.direction = proposal.direction

\* the final guard without the direction comparison
ApprovedIgnoringDirection(gr, ai_result, proposal) ==
    /\ gr.passed
    /\ ai_result # NoAI
    /\ ai_result.confidence >= ConfidenceThreshold
    /\ ai_result.direction # "NO_TRADE"

\* the conditions under which _main_loop reaches _save_signal
SignalApproved(gr, ai_result, proposal) ==
    /\ gr.passed
    /\ ai_result # NoAI
    /\ ai_result.confidence >= ConfidenceThreshold
    /\ ai_result.direction # "NO_TRADE"
    /\ ai_result.direction = proposal.direction

CoreInit ==
    /\ now = 0
    /\ daily = [d \in Dates |-> NoRow]
    /\ signals = <<>>
    /\ heartbeat = "none"
    /\ e_current_date = NoDate
    /\ e_pc = "idle"
    /\ e_daily_state = NoDailyState
    /\ tick_in = NoInput
    /\ gate_result = NoGate
    /\ v_current_date = NoDate
    /\ v_pc = "idle"
    /\ v_results = <<>>

Init ==
    CoreInit /\ ProposerIdle /\ KlineIdle /\ ReplayIdle /\ ExtIdle

\* the clock advances; the date rolls over every StepsPerDay steps
AdvanceTime ==
    /\ now < MaxNow
    /\ now' = now + 1
    /\ UNCHANGED auxvars
    /\ UNCHANGED <<daily, signals, heartbeat, e_current_date, e_pc, e_daily_state,
                   tick_in, gate_result, v_current_date, v_pc, v_results>>

\* _main_loop, top of an iteration: _check_new_day, _get_daily_state and the
\* should_stop early exit
Engine_tick_start ==
    /\ e_pc = "idle"
    /\ e_current_date' = Today
    /\ daily' = get_daily_state(IF e_current_date # Today
                                THEN reset_daily_state(daily, Today)
                                ELSE daily, Today)
    /\ e_daily_state' = EngineDailyState(daily'[Today])
    /\ tick_in' = NoInput
    /\ gate_result' = NoGate
    /\ IF e_daily_state'.status # "ACTIVE"
       THEN /\ heartbeat' = "daily_limit"
            /\ e_pc' = "idle"
       ELSE /\ UNCHANGED heartbeat
            /\ e_pc' = "evaluate"
    /\ UNCHANGED auxvars
    /\ UNCHANGED <<now, signals, v_current_date, v_pc, v_results>>

\* _main_loop: market data, regime, proposal, classifier, gates, final guard,
\* and save_signal when the signal is approved; a tick that reaches the end of
\* the loop body runs the learning step before its 'running' heartbeat
EngineEvaluate(Inputs, cap) ==
    /\ e_pc = "evaluate"
    /\ \E inp \in Inputs :
        /\ inp.hour \in HoursOf(now)
        /\ tick_in' = inp
        /\ IF inp.last_price = 0
           THEN /\ gate_result' = NoGate
                /\ e_pc' = "idle"
                /\ UNCHANGED <<heartbeat, signals>>
           ELSE IF inp.regime.regime_type = "CHOPPY"
           THEN /\ gate_result' = NoGate
                /\ heartbeat' = "waiting"
                /\ e_pc' = "idle"
                /\ UNCHANGED signals
           ELSE IF inp.proposal = NoProposal
           THEN /\ gate_result' = NoGate
                /\ signals' = _process_learning(signals)
                /\ heartbeat' = "running"
                /\ e_pc' = "idle"
           ELSE /\ gate_result' = evaluate(inp, inp.proposal, e_daily_state,
                                           inp.ai, now)
                /\ IF SignalApproved(gate_result', inp.ai, inp.proposal)
                   THEN /\ Len(signals) < cap
                        /\ signals' = Append(signals,
                                             Signal(Len(signals) + 1, now, inp))
                        /\ e_pc' = "increment"
                        /\ UNCHANGED heartbeat
                   ELSE IF gate_result'.passed /\ inp.ai = NoAI
                   THEN /\ heartbeat' = "error"
                        /\ e_pc' = "idle"
                        /\ UNCHANGED signals
                   ELSE /\ signals' = _process_learning(signals)
                        /\ heartbeat' = "running"
                        /\ e_pc' = "idle"
    /\ UNCHANGED auxvars
    /\ UNCHANGED <<now, daily, e_current_date, e_daily_state,
                   v_current_date, v_pc, v_results>>

Engine_evaluate == EngineEvaluate(TickInputs, MaxSignals)

Engine_evaluate_all == EngineEvaluate(AllInputs, MaxEngineSignals)

Engine_evaluate_guard == EngineEvaluate(GuardInputs, MaxEngineSignals)

\* the tick on the features and regime held in p_in
Engine_evaluate_pipeline ==
    EngineEvaluate(PipelineInputs(p_in.features, p_in.regime), MaxEngineSignals)

\* _save_signal: increment_trade_count; then the learning step and the
\* 'running' heartbeat
Engine_increment_trade_count ==
    /\ e_pc = "increment"
    /\ daily' = increment_trade_count(daily, Today)
    /\ signals' = _process_learning(signals)
    /\ heartbeat' = "running"
    /\ e_pc' = "idle"
    /\ UNCHANGED auxvars
    /\ UNCHANGED <<now, e_current_date, e_daily_state, tick_in,
                   gate_result, v_current_date, v_pc, v_results>>

\* _save_signal after save_signal has committed the row:
\* save_features_snapshot or increment_trade_count raises, and the handler
\* of _main_loop sends the 'error' heartbeat and abandons the tick
Engine_save_signal_raises ==
    /\ e_pc = "increment"
    /\ heartbeat' = "error"
    /\ e_pc' = "idle"
    /\ UNCHANGED auxvars
    /\ UNCHANGED <<now, daily, signals, e_current_date, e_daily_state, tick_in,
                   gate_result, v_current_date, v_pc, v_results>>

(************************* Verifier ****************************************)
\* HeartbeatBot._main_loop, top of an iteration: DailyStateManager.check_new_day
\* and SignalTracker.check_signals
VerifierCheckSignals(PriceSet) ==
    /\ v_pc = "idle"
    /\ v_current_date' = Today
    /\ daily' = IF v_current_date # Today
                THEN hb_reset_daily_state(daily, Today)
                ELSE daily
    /\ \E current_price \in PriceSet :
        LET results == IF current_price = 0
                       THEN <<>>
                       ELSE CheckResults(signals, current_price, now)
            changed == SelectSeq(results, LAMBDA r : r.changed)
        IN  /\ signals' = ApplyResults(signals, results, now)
            /\ v_results' = changed
            /\ v_pc' = IF changed = <<>> THEN "idle" ELSE "handle"
    /\ UNCHANGED auxvars
    /\ UNCHANGED <<now, heartbeat, e_current_date, e_pc, e_daily_state,
                   tick_in, gate_result>>

Verifier_check_signals == VerifierCheckSignals(Prices)

Verifier_check_signals_wide == VerifierCheckSignals(TrackerPrices)

\* HeartbeatBot._handle_signal_result for the next changed result
Verifier_handle_signal_result ==
    /\ v_pc = "handle"
    /\ LET result == Head(v_results)
       IN  /\ signals' = update_signal_result(signals, result, now)
           /\ daily' = update_with_result(daily, Today, result, now)
    /\ v_results' = Tail(v_results)
    /\ v_pc' = IF Tail(v_results) = <<>> THEN "idle" ELSE "handle"
    /\ UNCHANGED auxvars
    /\ UNCHANGED <<now, heartbeat, e_current_date, e_pc, e_daily_state,
                   tick_in, gate_result, v_current_date>>

\* _handle_signal_result raises and the handler of _main_loop abandons the
\* tick: either before update_with_result (get_pending_signals, the IQ
\* calculation or update_signal_result raised) or after it (the notifier
\* raised); the results still to be handled are dropped with it
Verifier_handle_raises ==
    /\ v_pc = "handle"
    /\ LET result == Head(v_results)
       IN  \/ UNCHANGED <<signals, daily>>
           \/ /\ signals' = update_signal_result(signals, result, now)
              /\ daily' = update_with_result(daily, Today, result, now)
    /\ v_results' = <<>>
    /\ v_pc' = "idle"
    /\ UNCHANGED auxvars
    /\ UNCHANGED <<now, heartbeat, e_current_date, e_pc, e_daily_state,
                   tick_in, gate_result, v_current_date>>

Next ==
    \/ AdvanceTime
    \/ Engine_tick_start
    \/ Engine_evaluate
    \/ Engine_increment_trade_count
    \/ Verifier_check_signals
    \/ Verifier_handle_signal_result

Spec == Init /\ [][Next]_vars

\* the Signal Engine alone, over the full input set
EngineNext ==
    \/ AdvanceTime
    \/ Engine_tick_start
    \/ Engine_evaluate_all
    \/ Engine_increment_trade_count

EngineSpec == Init /\ [][EngineNext]_vars

\* both processes, over the ticks that exercise the final guard
GuardNext ==
    \/ AdvanceTime
    \/ Engine_tick_start
    \/ Engine_evaluate_guard
    \/ Engine_increment_trade_count
    \/ Verifier_check_signals
    \/ Verifier_handle_signal_result

GuardSpec == Init /\ [][GuardNext]_vars

\* the Verifier alone, tracking one persisted signal over a dense price set
TrackerInit ==
    /\ now = 0
    /\ daily = [d \in Dates |-> NoRow]
    /\ signals \in { <<s>> : s \in TrackedSignals }
    /\ heartbeat = "none"
    /\ e_current_date = NoDate
    /\ e_pc = "idle"
    /\ e_daily_state = NoDailyState
    /\ tick_in = NoInput
    /\ gate_result = NoGate
    /\ v_current_date = NoDate
    /\ v_pc = "idle"
    /\ v_results = <<>>
    /\ ProposerIdle
    /\ KlineIdle
    /\ ReplayIdle
    /\ ExtIdle

TrackerNext ==
    \/ AdvanceTime
    \/ Verifier_check_signals_wide
    \/ Verifier_handle_signal_result

TrackerSpec == TrackerInit /\ [][TrackerNext]_vars

\* the Strategy Proposer alone, over ProposerFeatures and ProposerRegimes
ProposerInit ==
    /\ CoreInit
    /\ p_in \in [features : ProposerFeatures, regime : ProposerRegimes]
    /\ p_out = NotCalled
    /\ KlineIdle
    /\ ReplayIdle
    /\ ExtIdle

ProposerSpec == ProposerInit /\ [][ProposerNext]_vars

\* the kline stream of one timeframe
KlineSpec == Init /\ [][KlineNext]_vars

\* two Verifier executions over one signal and one recorded price series
ReplayInit ==
    /\ CoreInit
    /\ ProposerIdle
    /\ KlineIdle
    /\ rp_signal \in TrackedSignals
    /\ rp_samples = <<>>
    /\ rp_extremes = [run \in Runs |-> NoExtremes]
    /\ rp_written = [run \in Runs |-> NotWritten]
    /\ ExtIdle

ReplayNext ==
    \/ AdvanceTime
    \/ Replay_check_signal
    \/ Replay_restart

ReplaySpec == ReplayInit /\ [][ReplayNext]_vars

(************************* properties **************************************)
CreatedOn(d) == {i \in DOMAIN signals : DateOf(signals[i].created_at) = d}

Resolved(s) == s.status \in {"WIN", "LOSS", "TIMEOUT"}

RECURSIVE SumResultPnl(_, _)
SumResultPnl(sigs, d) ==
    IF sigs = <<>>
    THEN 0
    ELSE (IF Resolved(Head(sigs)) /\ DateOf(Head(sigs).result_time) = d
          THEN Head(sigs).result_pnl ELSE 0) + SumResultPnl(Tail(sigs), d)

\* C1: for every date d, under every interleaving of Engine and Verifier
\* ticks, the number of Signal rows created on d never exceeds 3.
C1_AtMostThreeSignalsPerDate ==
    \A d \in Dates : Cardinality(CreatedOn(d)) <= 3

\* C2: in every reachable state at most one signal created on a given date
\* has status PENDING.
C2_AtMostOnePendingPerDate ==
    \A d \in Dates :
        Cardinality({i \in CreatedOn(d) : signals[i].status = "PENDING"}) <= 1

\* C3: once DailyState(d).status has left ACTIVE (TARGET_HIT, STOP_HIT or
\* MAX_TRADES), no later step of either process changes the status of the
\* row of date d again or returns it to ACTIVE.
C3_StatusMonotone ==
    [][\A d \in Dates :
          daily[d].status \in {"TARGET_HIT", "STOP_HIT", "MAX_TRADES"}
              => daily'[d].status = daily[d].status]_vars

\* C4: for every date d, whenever no resolution is in progress, the pnl of
\* DailyState(d) equals the sum of result_pnl over the signals resolved on d
\* (status WIN, LOSS or TIMEOUT).
C4_PnlIsSumOfResults ==
    v_pc = "idle" =>
        \A d \in Dates : daily[d].pnl = SumResultPnl(signals, d)

\* C5: per signal id the status goes PENDING and then to one of WIN, LOSS,
\* TIMEOUT; once resolved, status, result_price and result_pnl are never
\* changed to different values, and only Verifier steps write those columns
\* (the Signal Engine only inserts PENDING rows with empty result columns).
C5_LifecycleFinal ==
    [][/\ Len(signals') >= Len(signals)
       /\ \A i \in DOMAIN signals :
            LET old == signals[i]
                new == signals'[i]
                written == \/ new.status # old.status
                           \/ new.result_price # old.result_price
                           \/ new.result_pnl # old.result_pnl
            IN  /\ new.signal_id = old.signal_id
                /\ Resolved(old) => ~written
                /\ old.status = "PENDING" => (new.status = "PENDING" \/ Resolved(new))
                /\ written => /\ v_pc \in {"idle", "handle"}
                              /\ UNCHANGED <<e_pc, e_current_date, e_daily_state,
                                             tick_in, gate_result, heartbeat>>
       /\ \A i \in DOMAIN signals' \ DOMAIN signals :
            /\ signals'[i].status = "PENDING"
            /\ signals'[i].result_price = None
            /\ signals'[i].result_pnl = None]_vars

\* C5 witness: two signals resolved at different times with different
\* outcomes, so a Verifier tick ran after the first one was resolved
C5_Witness ==
    \E i, j \in DOMAIN signals :
        /\ Resolved(signals[i]) /\ Resolved(signals[j])
        /\ signals[i].result_time < signals[j].result_time
        /\ signals[i].status # signals[j].status

\* C6: in every Signal Engine tick in which G5 fails for the DailyState the
\* tick read, no Signal row is created and the daily_state rows (trade_count,
\* has_position) are left unchanged, even when gates G1-G4 all passed.
C6_Gate5FailNoSignal ==
    [][(/\ e_pc = "evaluate"
        /\ e_pc' # "evaluate"
        /\ _check_gate5_daily_limits(e_daily_state, now).status = "FAILED")
          => /\ Len(signals') = Len(signals)
             /\ daily' = daily
             /\ e_pc' = "idle"]_vars

\* C6 witness: gates 1-4 passed and gate 5 blocked the tick
C6_Witness ==
    /\ gate_result.blocking_gate = "Gate 5: Daily Limits"
    /\ Len(gate_result.gate_results) = 5
    /\ \A k \in 1 .. 4 : gate_result.gate_results[k].status = "PASSED"
    /\ e_pc = "idle"

\* C7: whenever the consecutive_losses of the DailyState handed to the gates
\* is >= 2 and fewer than 60 minutes have elapsed since the last trade (the
\* creation of the latest signal, hence also since its resolution), G5 fails
\* for that DailyState.
C7_CooldownBlocks ==
    (/\ e_pc = "evaluate"
     /\ e_daily_state.consecutive_losses >= 2
     /\ signals # <<>>
     /\ (now - signals[Len(signals)].created_at) * StepMinutes < 60)
        => _check_gate5_daily_limits(e_daily_state, now).status = "FAILED"

\* C8: every persisted Signal with a positive entry price satisfies: LONG
\* implies stop < entry < target, SHORT implies target < entry < stop, with
\* |target - entry| / entry = 0.005 and |stop - entry| / entry = 0.0025.
C8_PriceInvariants ==
    \A i \in DOMAIN signals :
        LET s == signals[i]
        IN  /\ s.entry_price > 0
            /\ s.direction \in {"LONG", "SHORT"}
            /\ s.direction = "LONG" =>
                   /\ s.stop_loss < s.entry_price
                   /\ s.entry_price < s.take_profit
                   /\ (s.take_profit - s.entry_price) * 1000 = 5 * s.entry_price
                   /\ (s.entry_price - s.stop_loss) * 10000 = 25 * s.entry_price
            /\ s.direction = "SHORT" =>
                   /\ s.take_profit < s.entry_price
                   /\ s.entry_price < s.stop_loss
                   /\ (s.entry_price - s.take_profit) * 1000 = 5 * s.entry_price
                   /\ (s.stop_loss - s.entry_price) * 10000 = 25 * s.entry_price

\* C8 witness: a SHORT signal has been persisted at the smaller entry price
C8_Witness ==
    \E i \in DOMAIN signals :
        signals[i].direction = "SHORT" /\ signals[i].entry_price = 400

GateNames ==
    <<"Gate 1: Context", "Gate 2: Regime", "Gate 3: Signal Quality",
      "Gate 4: AI Confirmation", "Gate 5: Daily Limits">>

\* what each gate returns on the inputs of a tick, whether or not it is run
GateOutcomes(inp, ds, t) ==
    <<_check_gate1_context(inp.hour, inp.funding),
      _check_gate2_regime(inp.regime),
      _check_gate3_signal_quality(inp.mtf_alignment, inp.rsi_14, inp.proposal),
      _check_gate4_ai(inp.ai),
      _check_gate5_daily_limits(ds, t)>>

FirstFailed(g) ==
    IF \A k \in DOMAIN g : g[k].status # "FAILED"
    THEN 0
    ELSE CHOOSE k \in DOMAIN g :
             /\ g[k].status = "FAILED"
             /\ \A j \in 1 .. (k - 1) : g[j].status # "FAILED"

\* C9: gates are evaluated in the order G1..G5 and evaluation short-circuits:
\* when Gk is the first gate to fail, the result is not passed, blocking_gate
\* names Gk and exactly the results of G1..Gk are recorded; the result is
\* passed only if no gate returned FAILED.  (The tick's result is compared
\* with what the five gates return on the tick's inputs at the time t, not
\* after now, at which they were evaluated.)
C9_OrderedShortCircuit ==
    gate_result # NoGate =>
        \E t \in 0 .. now :
          LET g == GateOutcomes(tick_in, e_daily_state, t)
              k == FirstFailed(g)
              r == gate_result
          IN  /\ \A j \in DOMAIN r.gate_results :
                    r.gate_results[j].gate_name = GateNames[j]
              /\ k > 0 => /\ ~r.passed
                          /\ r.blocking_gate = GateNames[k]
                          /\ Len(r.gate_results) = k
                          /\ r.gate_results = SubSeq(g, 1, k)
              /\ k = 0 => /\ r.passed
                          /\ r.gate_results = g
              /\ r.passed =>
                    \A j \in DOMAIN r.gate_results :
                        r.gate_results[j].status # "FAILED"

\* C9 witness: gate 3 blocked a tick on which gate 4 would have failed too
C9_Witness ==
    /\ gate_result.blocking_gate = "Gate 3: Signal Quality"
    /\ Len(gate_result.gate_results) = 3
    /\ _check_gate4_ai(tick_in.ai).status = "FAILED"

\* C10 (as stated): when a classifier result is present, G4 returns PASS if
\* and only if confidence >= 0.65, risk factors <= 1 and the classifier
\* direction equals the proposal's direction and is not NO_TRADE; when the
\* result is absent G4 returns SKIP with score 0.65.
C10_Gate4WithDirection ==
    Len(gate_result.gate_results) >= 4 =>
        LET g4 == gate_result.gate_results[4]
            ai == tick_in.ai
        IN  IF ai = NoAI
            THEN g4.status = "SKIPPED" /\ g4.score = 65
            ELSE g4.status = "PASSED" <=>
                     /\ ai.confidence >= 65
                     /\ ai.risk_factors <= 1
                     /\ ai.direction = tick_in.proposal.direction
                     /\ ai.direction # "NO_TRADE"

\* C10 (amended): when a classifier result is present, G4 returns PASS if and
\* only if confidence >= 0.65 and risk factors <= 1, whatever the classifier
\* direction; when the result is absent G4 returns SKIP with score 0.65.
C10_Gate4ConfidenceAndRisk ==
    Len(gate_result.gate_results) >= 4 =>
        LET g4 == gate_result.gate_results[4]
            ai == tick_in.ai
        IN  IF ai = NoAI
            THEN g4.status = "SKIPPED" /\ g4.score = 65
            ELSE /\ g4.status \in {"PASSED", "FAILED"}
                 /\ g4.status = "PASSED" <=>
                        (ai.confidence >= 65 /\ ai.risk_factors <= 1)

\* C10 witness: G4 passed a classifier result whose direction differs from
\* the proposal's
C10_Witness ==
    /\ Len(gate_result.gate_results) >= 4
    /\ gate_result.gate_results[4].status = "PASSED"
    /\ tick_in.ai # NoAI
    /\ tick_in.ai.direction # tick_in.proposal.direction

\* the final guard of the tick whose inputs and gate verdict are inp and gr
FinalGuard(gr, inp) ==
    /\ gr.passed
    /\ inp.ai # NoAI
    /\ inp.ai.direction = inp.proposal.direction
    /\ inp.ai.direction # "NO_TRADE"
    /\ inp.ai.confidence >= 65

\* a step that is the evaluation of a tick which reached the gates and
\* failed the final guard
GuardFailedStep ==
    /\ e_pc = "evaluate"
    /\ e_pc' = "idle"
    /\ gate_result' # NoGate
    /\ ~FinalGuard(gate_result', tick_in')

C12_AbsentClassifierCompletes ==
    (e_pc = "idle" /\ gate_result # NoGate /\ tick_in.ai = NoAI) =>
        /\ Len(gate_result.gate_results) >= 4 =>
              /\ gate_result.gate_results[4].status = "SKIPPED"
              /\ gate_result.gate_results[4].score = 65
              /\ Len(gate_result.gate_results) = 5
        /\ heartbeat # "error"

\* the resolution the tracker is to reach for signal s at fetched price p and
\* time t: target first, then stop, then the 240 minute timeout
ResolutionRule(s, p, t) ==
    LET atTarget == IF s.direction = "LONG" THEN p >= s.take_profit
                                             ELSE p <= s.take_profit
        atStop == IF s.direction = "LONG" THEN p <= s.stop_loss
                                           ELSE p >= s.stop_loss
        change == IF s.direction = "LONG" THEN p - s.entry_price
                                           ELSE s.entry_price - p
    IN  IF atTarget
        THEN [status |-> "WIN", result_price |-> s.take_profit,
              result_pnl |-> 1500, result_reason |-> "TP_HIT"]
        ELSE IF atStop
        THEN [status |-> "LOSS", result_price |-> s.stop_loss,
              result_pnl |-> 0 - 750, result_reason |-> "SL_HIT"]
        ELSE IF (t - s.created_at) * StepMinutes >= 240
        THEN [status |-> "TIMEOUT", result_price |-> p,
              result_pnl |-> (change * 3000 * 100) \div s.entry_price,
              result_reason |-> "TIMEOUT"]
        ELSE [status |-> "PENDING", result_price |-> None,
              result_pnl |-> None, result_reason |-> ""]

\* C13: for every PENDING signal and every fetched price the tracker's result
\* is the one of the resolution rule (WIN at the target with +15, else LOSS at
\* the stop with -7.50, else TIMEOUT at the price after 240 minutes, else still
\* PENDING), and every resolved row carries the result of the rule at its
\* result price
C13_ResolutionRule ==
    /\ \A i \in DOMAIN signals : \A p \in TrackerPrices \ {0} :
          signals[i].status = "PENDING" =>
              LET r == _check_signal(signals[i], p, now)
              IN  /\ [status |-> r.status, result_price |-> r.result_price,
                      result_pnl |-> r.result_pnl,
                      result_reason |-> r.result_reason]
                        = ResolutionRule(signals[i], p, now)
                  /\ r.changed = (r.status # "PENDING")
    /\ \A i \in DOMAIN signals :
          signals[i].status # "PENDING" =>
              /\ signals[i].result_time # NoTime
              /\ [status |-> signals[i].status,
                  result_price |-> signals[i].result_price,
                  result_pnl |-> signals[i].result_pnl,
                  result_reason |-> signals[i].result_reason]
                    = ResolutionRule(signals[i], signals[i].result_price,
                                     signals[i].result_time)

\* a SHORT signal timed out above its entry, at a loss
C13_Witness ==
    \E i \in DOMAIN signals :
        /\ signals[i].direction = "SHORT"
        /\ signals[i].status = "TIMEOUT"
        /\ signals[i].result_price > signals[i].entry_price
        /\ signals[i].result_pnl < 0

\* the price invariants of a persisted row: stop and target on opposite sides
\* of the entry, 0.25% and 0.5% away from it
PriceInvariantsOf(s) ==
    /\ s.entry_price > 0
    /\ IF s.direction = "LONG"
       THEN /\ s.stop_loss < s.entry_price /\ s.entry_price < s.take_profit
            /\ (s.take_profit - s.entry_price) * 1000 = 5 * s.entry_price
            /\ (s.entry_price - s.stop_loss) * 10000 = 25 * s.entry_price
       ELSE /\ s.take_profit < s.entry_price /\ s.entry_price < s.stop_loss
            /\ (s.entry_price - s.take_profit) * 1000 = 5 * s.entry_price
            /\ (s.stop_loss - s.entry_price) * 10000 = 25 * s.entry_price

\* C14: every signal resolved as TIMEOUT has |result_pnl| <= 22.5; when the
\* row satisfies the price invariants the timeout price lies strictly between
\* stop and target and -7.5 < result_pnl < 15
C14_TimeoutPnlBounds ==
    \A i \in DOMAIN signals :
        LET s == signals[i]
        IN  s.status = "TIMEOUT" =>
                /\ s.result_pnl <= 2250
                /\ s.result_pnl >= 0 - 2250
                /\ PriceInvariantsOf(s) =>
                      /\ IF s.direction = "LONG"
                         THEN /\ s.stop_loss < s.result_price
                              /\ s.result_price < s.take_profit
                         ELSE /\ s.take_profit < s.result_price
                              /\ s.result_price < s.stop_loss
                      /\ s.result_pnl > 0 - 750
                      /\ s.result_pnl < 1500

\* a LONG signal timed out one tick size below its target
C14_Witness ==
    \E i \in DOMAIN signals :
        /\ signals[i].status = "TIMEOUT"
        /\ PriceInvariantsOf(signals[i])
        /\ signals[i].direction = "LONG"
        /\ signals[i].result_price = signals[i].take_profit - 1
        /\ signals[i].result_pnl > 0

\* the DailyState row the budget update is to leave for result r on row state
BudgetRule(state, r) ==
    LET pnl == state.pnl + r.result_pnl
        win == r.status = "WIN"
    IN  [state EXCEPT
            !.pnl = pnl,
            !.wins = IF win THEN @ + 1 ELSE @,
            !.losses = IF win THEN @ ELSE @ + 1,
            !.consecutive_losses = IF win THEN 0 ELSE @ + 1,
            !.has_position = FALSE,
            !.status = IF pnl >= 1000 THEN "TARGET_HIT"
                       ELSE IF pnl <= 0 - 1500 THEN "STOP_HIT"
                       ELSE IF state.trade_count >= 3 THEN "MAX_TRADES"
                       ELSE @]

\* C15: on each resolved signal the daily budget update adds result_pnl to
\* pnl, counts a WIN (consecutive_losses back to 0) or a loss (LOSS or TIMEOUT,
\* consecutive_losses up by one), clears has_position, sets status by the first
\* of pnl >= +10, pnl <= -15, trade_count >= 3, and leaves trade_count alone
C15_DailyBudgetUpdate ==
    [][ (v_pc = "handle" /\ v_results' = Tail(v_results)) =>
            LET rule == BudgetRule(daily[Today], Head(v_results))
                after == daily'[Today]
            IN  /\ after.pnl = rule.pnl
                /\ after.wins = rule.wins
                /\ after.losses = rule.losses
                /\ after.consecutive_losses = rule.consecutive_losses
                /\ after.has_position = rule.has_position
                /\ after.status = rule.status
                /\ after.trade_count = daily[Today].trade_count ]_vars

\* the hard direction rule for a proposal of direction d under regime
DirectionRule(d, regime) ==
    \/ regime.exhaustion_risk > 70
    \/ /\ regime.regime_type = "TRENDING_UP" => d = "LONG"
       /\ regime.regime_type = "TRENDING_DOWN" => d = "SHORT"

\* C16: every proposal the Strategy Proposer returns is LONG under
\* TRENDING_UP and SHORT under TRENDING_DOWN unless exhaustion_risk > 0.7, and
\* the final validation of generate rejects exactly the directions that break
\* this rule
C16_HardDirectionRule ==
    /\ p_out \notin {NotCalled, NoProposal} =>
          DirectionRule(p_out.direction, p_in.regime)
    /\ \A d \in {"LONG", "SHORT"} :
          _validate_direction_vs_regime(d, p_in.regime)
              = DirectionRule(d, p_in.regime)

\* a counter-trend SHORT was proposed in an exhausted TRENDING_UP regime
C16_Witness ==
    /\ p_out \notin {NotCalled, NoProposal}
    /\ p_in.regime.regime_type = "TRENDING_UP"
    /\ p_in.regime.exhaustion_risk > 70
    /\ p_out.direction = "SHORT"

\* C17: after any sequence of kline events for a timeframe the stored candle
\* sequence has non-decreasing timestamps, holds at most one unclosed candle,
\* which is its last element, and holds no timestamp twice
C17_CandleSequence ==
    /\ \A i, j \in DOMAIN candles :
          i < j => candles[i].timestamp <= candles[j].timestamp
    /\ \A i \in DOMAIN candles : ~candles[i].is_closed => i = Len(candles)
    /\ \A i, j \in DOMAIN candles :
          i # j => candles[i].timestamp # candles[j].timestamp

\* C18: no DailyState column is written by both processes: a step of the
\* Signal Engine leaves every existing DailyState row as it was and at most
\* creates a missing one (stated on the Engine running alone, where every
\* step that is not the clock is a Signal Engine action)
C18_EngineLeavesDailyState ==
    [][ \A d \in Dates :
            daily[d].date # NoDate => daily'[d] = daily[d] ]_vars

\* the extremes of a recorded series
RECURSIVE SeriesExtremes(_)
SeriesExtremes(samples) ==
    IF Len(samples) = 1
    THEN [max |-> samples[1].price, min |-> samples[1].price]
    ELSE LET rest == SeriesExtremes(Tail(samples))
             p == Head(samples).price
         IN  [max |-> IF p > rest.max THEN p ELSE rest.max,
              min |-> IF p < rest.min THEN p ELSE rest.min]

\* the non-negative excursions of signal s over a recorded series, in
\* hundredths of a percent of the entry price
SeriesExcursions(s, samples) ==
    LET ext == SeriesExtremes(samples)
        up == ((ext.max - s.entry_price) * 10000) \div s.entry_price
        down == ((s.entry_price - ext.min) * 10000) \div s.entry_price
        fav == IF s.direction = "LONG" THEN up ELSE down
        adv == IF s.direction = "LONG" THEN down ELSE up
    IN  [mfe |-> IF fav > 0 THEN fav ELSE 0, mae |-> IF adv > 0 THEN adv ELSE 0]

\* C19: two Verifier executions that record the same PriceSample series for a
\* signal, one of them restarted between two samples, write the same status,
\* result_price, MFE and MAE, and the MFE and MAE written are the non-negative
\* excursions over all recorded samples
C19_ReplayDeterminism ==
    /\ rp_written["steady"] = rp_written["restarted"]
    /\ \A run \in Runs :
          rp_written[run] # NotWritten =>
              /\ rp_written[run].mfe = SeriesExcursions(rp_signal, rp_samples).mfe
              /\ rp_written[run].mae = SeriesExcursions(rp_signal, rp_samples).mae

\* C20: a Signal Engine tick whose snapshot has last_price = 0 leaves the
\* latest core_brain heartbeat at status 'waiting' and persists no signal
C20_NoDataHeartbeatWaiting ==
    [][ (e_pc = "evaluate" /\ e_pc' = "idle" /\ tick_in'.last_price = 0) =>
            /\ heartbeat' = "waiting"
            /\ signals' = signals ]_vars

StoreInit ==
    /\ CoreInit
    /\ ProposerIdle
    /\ KlineIdle
    /\ ReplayIdle
    /\ ExtIdle

StoreSpec == StoreInit /\ [][StoreNext]_vars

\* the latest call repeated the one before it, on the same natural key
Retried == st_call.op # "none" /\ st_call.retry

\* C21: performing an append path (save_signal for one signal_id,
\* add_price_tracking for one sample, ping_heartbeat for one bot_name and
\* timestamp) a second time leaves the store as the first time left it and
\* raises no error
C21_AppendIdempotent ==
    Retried => (StoreTables = st_prev /\ ~st_call.raised)

\* what one reset of date d by the given implementation makes of the rows
ResetRule(reset(_, _), d) ==
    LET once == reset(daily, d)
        twice == reset(once, d)
    IN  /\ twice = once
        /\ once[d] = DailyStateRow(d)
        /\ \A other \in Dates \ {d} : once[other] = daily[other]

\* C22: reset_daily_state(d) of either repository is idempotent: a second
\* call leaves what the first left, namely the row of d with pnl 0,
\* trade_count 0, wins 0, losses 0, consecutive_losses 0, has_position false,
\* status ACTIVE and no hit stamps; the row of d exists afterwards and the
\* rows of the other dates are as they were
C22_ResetIdempotent ==
    \A d \in Dates :
        /\ ResetRule(reset_daily_state, d)
        /\ ResetRule(hb_reset_daily_state, d)

\* a reset has just cleared a row that carried a trade: today's row is at
\* its defaults while a signal created today is still pending
C22_Witness ==
    /\ v_current_date = Today
    /\ daily[Today] = DailyStateRow(Today)
    /\ \E i \in 1 .. Len(signals) :
           /\ signals[i].status = "PENDING"
           /\ DateOf(signals[i].created_at) = Today

\* the trigger conditions of the two special strategies
FundingTrigger(features) ==
    features.has_funding /\ Abs(features.funding_current) > 100

LiquidationTrigger(features) ==
    \/ features.distance_to_long_liq < 20
    \/ features.distance_to_short_liq < 20

\* C23: the proposer selects by strict priority: a strategy other than
\* FUNDING_FADE is proposed only when the funding trigger (|funding| > 0.1%)
\* is false, and a regime strategy (TREND_MOMENTUM, RANGE_SCALPING) only when
\* the liquidation trigger (a liq-zone distance < 2%) is false as well
C23_StrictPriority ==
    (p_out # NotCalled /\ p_out # NoProposal) =>
        LET choice == _select_strategy(p_in.features, p_in.regime)
        IN  /\ choice.strategy # "FUNDING_FADE"
                => ~FundingTrigger(p_in.features)
            /\ choice.strategy \in {"TREND_MOMENTUM", "RANGE_SCALPING"}
                => ~LiquidationTrigger(p_in.features)

ConnSpec == StoreInit /\ [][ConnNext]_vars

\* the event loop keeps running the connect coroutine: a pending
\* websockets.connect and a pending sleep both complete
ConnFairSpec ==
    ConnSpec /\ WF_vars(Conn_open) /\ WF_vars(Conn_except)

\* a stream close has happened and the client is still running
AfterClose == conn_running /\ conn_close.n > 0

\* C24: while the client is running, every stream close is followed by a
\* reconnect attempt, an attempt is made only after the back-off wait, and
\* from the close to the end of the reconnect the stored candles, trades,
\* book, funding and last_price are what they were at the close
C24_ReconnectWithBackoff ==
    /\ [](AfterClose /\ conn_close.attempted => conn_close.waited)
    /\ [](AfterClose /\ conn_pc \in {"connect", "except"}
            => conn_data = conn_close.data)
    /\ (AfterClose /\ ~conn_close.attempted)
           ~> (conn_close.attempted \/ ~conn_running)

\* the Signal Engine alone, with store writes that may raise
PersistNext ==
    \/ AdvanceTime
    \/ Engine_tick_start
    \/ Engine_evaluate_guard
    \/ Engine_increment_trade_count
    \/ Engine_save_signal_raises

PersistSpec == Init /\ [][PersistNext]_vars

\* the latest tick has ended and it created a Signal row
TickCreatedSignal ==
    /\ e_pc = "idle"
    /\ tick_in # NoInput
    /\ SignalApproved(gate_result, tick_in.ai, tick_in.proposal)

\* C25: between Signal Engine ticks, also after a tick in which a store
\* write raised, the latest tick created a Signal row if and only if it
\* raised the trade_count of its day by exactly one and set has_position
C25_PersistAllOrNothing ==
    (e_pc = "idle" /\ e_current_date # NoDate) =>
        LET row == daily[e_current_date]
        IN  IF TickCreatedSignal
            THEN /\ row.trade_count = e_daily_state.trade_count + 1
                 /\ row.has_position
            ELSE /\ row.trade_count = e_daily_state.trade_count
                 /\ row.has_position = e_daily_state.has_position

\* the Verifier alone on one persisted signal, with calls that may raise
TrackerFaultNext ==
    \/ AdvanceTime
    \/ Verifier_check_signals_wide
    \/ Verifier_handle_signal_result
    \/ Verifier_handle_raises

TrackerFaultSpec == TrackerInit /\ [][TrackerFaultNext]_vars

\* C26: every signal the Verifier resolves is applied to the daily state
\* exactly once, also when a later call of the tick raises: a resolved result
\* leaves the results still to be handled only one at a time and only
\* together with its update_with_result on the daily state
C26_ResolvedAppliedOnce ==
    [][(v_pc = "handle" /\ v_results' # v_results) =>
          /\ v_results' = Tail(v_results)
          /\ daily' = update_with_result(daily, Today, Head(v_results), now)]_vars

LoopSpec == StoreInit /\ [][LoopNext]_vars

\* every await of a tick completes (outbound calls have read timeouts, the
\* sleeps are finite), so a loop that can step does step
LoopFairSpec ==
    LoopSpec /\ \A p \in Processes : WF_vars(LoopStep(p))

\* C27: after stop has set the running flag to false, the main loop of each
\* process starts no further tick, passes the loop test at most once, and
\* ends, whether the tick in progress completes or raises
C27_LoopStopsAtTickBoundary ==
    /\ [](\A p \in Processes :
             lp_after[p].ticks = 0 /\ lp_after[p].tests <= 1)
    /\ \A p \in Processes :
           lp_after[p].requested ~> (lp_pc[p] = "exited")

\* both loops have ended after a stop; the Signal Engine's tick in progress
\* raised after the stop, the Verifier's completed
C27_Witness ==
    /\ \A p \in Processes :
           /\ lp_pc[p] = "exited"
           /\ lp_after[p].requested
           /\ lp_after[p].tests = 1
    /\ lp_after["core_brain"].erred
    /\ ~lp_after["heartbeat"].erred

\* neither process is in the middle of a tick
BetweenTicks == e_pc = "idle" /\ v_pc = "idle" /\ v_results = <<>>

SomePending == \E i \in DOMAIN signals : signals[i].status = "PENDING"

\* C28: when neither process is mid-tick, has_position of today's row is
\* true if and only if some signal is PENDING; in particular it is never
\* left true with no PENDING signal
C28_HasPositionIffPending ==
    (BetweenTicks /\ daily[Today].date # NoDate) =>
        (daily[Today].has_position <=> SomePending)

\* the Signal Engine alone on one market situation: every tick computes
\* its proposal and the heuristic's answer from the features and the regime
PipelineNext ==
    \/ AdvanceTime
    \/ Engine_tick_start
    \/ Engine_evaluate_pipeline
    \/ Engine_increment_trade_count

PipelineInit ==
    /\ CoreInit
    /\ p_in \in [features : PipelineFeatures, regime : PipelineRegimes]
    /\ p_out = NotCalled
    /\ KlineIdle
    /\ ReplayIdle
    /\ ExtIdle

PipelineSpec == PipelineInit /\ [][PipelineNext]_vars

\* C29: no persisted signal is counter-trend: a signal whose regime is
\* TRENDING_UP has direction LONG and one whose regime is TRENDING_DOWN has
\* direction SHORT
C29_NoCounterTrendSignal ==
    \A i \in DOMAIN signals :
        /\ signals[i].regime = "TRENDING_UP" => signals[i].direction = "LONG"
        /\ signals[i].regime = "TRENDING_DOWN" => signals[i].direction = "SHORT"

\* a signal of a trending regime has been persisted
C29_Witness ==
    \E i \in DOMAIN signals :
        signals[i].regime \in {"TRENDING_UP", "TRENDING_DOWN"}

\* the latest tick ran on the heuristic classifier and created a Signal row
HeuristicSignal ==
    /\ e_pc = "increment"
    /\ tick_in.mode = "heuristic"

\* C30: with the heuristic classifier (no trained model loaded) no
\* TREND_MOMENTUM signal is persisted, and every signal persisted has
\* rsi_14 < 35 with direction LONG or rsi_14 > 65 with direction SHORT
C30_HeuristicNeverTrendMomentum ==
    HeuristicSignal =>
        LET choice == _select_strategy(tick_in.features, tick_in.regime)
            row == signals[Len(signals)]
        IN  /\ choice.strategy # "TREND_MOMENTUM"
            /\ \/ tick_in.rsi_14 < 35 /\ row.direction = "LONG"
               \/ tick_in.rsi_14 > 65 /\ row.direction = "SHORT"

\* a signal persisted on the heuristic classifier, in a trending regime
C30_Witness ==
    /\ HeuristicSignal
    /\ tick_in.regime.regime_type \in {"TRENDING_UP", "TRENDING_DOWN"}

====
